---- MODULE Spec2Model ----
(***************************************************************************)
(* Verification model of the WhatsApp health chatbot backend:              *)
(*   src/src/routers/whatsapp.py      webhook endpoints, delivery client,  *)
(*                                    retrying sender                      *)
(*   src/src/routers/admin.py         alert broadcast                      *)
(*   src/src/utils/webhook_security.py signature, payload validation,      *)
(*                                    phone canonicalization, extraction   *)
(*   src/src/services/*.py, src/src/db/models.py  user registry, replies   *)
(*                                                                         *)
(* Python str and bytes values are TLA+ strings; a Python dict is a        *)
(* function whose DOMAIN is the set of keys present; None is the value     *)
(* None below.                                                             *)
(***************************************************************************)
EXTENDS Integers, Sequences, FiniteSets, TLC

VARIABLES
    Config,             \* src/src/config.py: the environment-sourced settings
    sent,               \* every send_message call of the running operation
    \* send_message_with_retry (whatsapp.py:563-610)
    rs_pc,              \* "idle", "loop" or "returned"
    rs_args,            \* its arguments
    attempt,            \* the loop variable
    send_result,        \* the last send_message result
    rs_ret,             \* the returned dict
    \* the user registry (db/models.py:48)
    users_db,           \* the dict, as the sequence of its values in
                        \* insertion order; the key is phone_number
    \* broadcast_alert (admin.py:59-164)
    bc_pc,              \* "idle", "sending" or "returned"
    active_users,       \* the users loaded at line 87
    formatted_message,  \* the text built at line 105
    broadcast_results,  \* the list filled at lines 108-111
    alert_response,     \* the returned AlertResponse
    \* verify_webhook_signature (webhook_security.py:20-81)
    sig_signed,         \* the secret and body the header was computed from
    sig_header,         \* the X-Hub-Signature-256 header
    sig_args,           \* the payload and secret of the call
    sig_result,         \* what the call returned or raised
    \* sanitize_phone_number (webhook_security.py:171-204)
    ph_input,           \* the phone_number argument
    ph_result,          \* what the call returned or raised
    ph_again,           \* what a second call, on the value returned, did
    \* receive_message and the functions under it (whatsapp.py:141-560)
    wh_pc,              \* where the handler of the POST stands
    raw_payload,        \* the bytes of the request body
    x_hub_signature_256, \* the X-Hub-Signature-256 header, None when absent
    wh_body,            \* body, the parsed payload
    entry_index,        \* position of the loop at whatsapp.py:208
    change_index,       \* position of the loop at whatsapp.py:294
    message_index,      \* position of the loop at whatsapp.py:347
    extracted_message,  \* what extract_message_content gave for the message
    processed_entries,
    processing_errors,
    generated,          \* the calls of message_service.generate_response
    handled,            \* the calls of process_user_message, by position
    wh_response,        \* the HTTP response of the POST
    \* verify_webhook (whatsapp.py:47-137)
    vw_query,           \* hub.mode, hub.challenge and hub.verify_token
    vw_response,        \* the HTTP response of the GET
    \* send_message called on its own (whatsapp.py:613-765)
    sm_call,            \* to, message and what requests.post did
    sm_result,          \* the dict send_message returned
    \* UserService.process_user_message called on its own
    \* (user_service.py:157-193)
    um_calls,           \* the phone_number arguments of the calls so far
    \* the try block at whatsapp.py:410-419
    registry_raises     \* TRUE when UserService.process_user_message raises

retryVars == <<rs_pc, rs_args, attempt, send_result, rs_ret>>
registryVars == <<users_db>>
broadcastVars == <<bc_pc, active_users, formatted_message, broadcast_results,
                   alert_response>>

signatureVars == <<sig_signed, sig_header, sig_args, sig_result>>

phoneVars == <<ph_input, ph_result, ph_again>>

webhookVars ==
    <<wh_pc, raw_payload, x_hub_signature_256, wh_body, entry_index, change_index,
      message_index, extracted_message, processed_entries, processing_errors,
      generated, handled, wh_response>>

verifyVars == <<vw_query, vw_response>>

sendVars == <<sm_call, sm_result>>

callVars == <<um_calls>>

faultVars == <<registry_raises>>

vars == <<Config, sent, retryVars, registryVars, broadcastVars, signatureVars,
          phoneVars, webhookVars, verifyVars, sendVars,
                callVars, faultVars>>

\* What an action of one component leaves alone
RetryFrame ==
    UNCHANGED <<Config, registryVars, broadcastVars, signatureVars, phoneVars,
                webhookVars, verifyVars, sendVars,
                callVars, faultVars>>
RegistryFrame ==
    UNCHANGED <<Config, sent, retryVars, broadcastVars, signatureVars,
                phoneVars, webhookVars, verifyVars, sendVars,
                callVars, faultVars>>
BroadcastFrame ==
    UNCHANGED <<Config, retryVars, registryVars, signatureVars, phoneVars,
                webhookVars, verifyVars, sendVars,
                callVars, faultVars>>
SignatureFrame ==
    UNCHANGED <<Config, sent, retryVars, registryVars, broadcastVars,
                phoneVars, webhookVars, verifyVars, sendVars,
                callVars, faultVars>>
PhoneFrame ==
    UNCHANGED <<Config, sent, retryVars, registryVars, broadcastVars,
                signatureVars, webhookVars, verifyVars, sendVars,
                callVars, faultVars>>
WebhookFrame ==
    UNCHANGED <<Config, broadcastVars, signatureVars, phoneVars, verifyVars,
                sendVars, callVars, faultVars>>
VerifyFrame ==
    UNCHANGED <<Config, sent, retryVars, registryVars, broadcastVars,
                signatureVars, phoneVars, webhookVars, sendVars,
                callVars, faultVars>>
SendFrame ==
    UNCHANGED <<retryVars, registryVars, broadcastVars, signatureVars,
                phoneVars, webhookVars, verifyVars, callVars, faultVars>>
CallFrame ==
    UNCHANGED <<Config, sent, retryVars, broadcastVars, signatureVars,
                phoneVars, webhookVars, verifyVars, sendVars, faultVars>>

-----------------------------------------------------------------------------
(* Bounds of the model *)

MaxRetriesBound == 3     \* max_retries is drawn from -1 .. MaxRetriesBound
MaxMessageCount == 1     \* messages one user sends before a broadcast
MaxDigits == 17          \* digits in a phone number handed to the sanitizer
MaxSiblings == 2         \* entries, changes or messages in one list
MaxCalls == 3            \* calls of process_user_message on its own

-----------------------------------------------------------------------------
(* Python values *)

None == "<None>"

\* Python truthiness of an Optional[str]
Truthy(s) == s # None /\ s # ""

\* dict.get(key) with the default None
Get(d, k) == IF k \in DOMAIN d THEN d[k] ELSE None

Whitespace == {" ", "\t", "\n", "\r", "\f"}

CharAt(s, i) == SubSeq(s, i, i)

RECURSIVE LStrip(_)
LStrip(s) ==
    IF Len(s) > 0 /\ CharAt(s, 1) \in Whitespace
    THEN LStrip(SubSeq(s, 2, Len(s)))
    ELSE s

RECURSIVE RStrip(_)
RStrip(s) ==
    IF Len(s) > 0 /\ CharAt(s, Len(s)) \in Whitespace
    THEN RStrip(SubSeq(s, 1, Len(s) - 1))
    ELSE s

\* str.strip()
Strip(s) == RStrip(LStrip(s))

\* c * n
RECURSIVE Repeat(_, _)
Repeat(c, n) ==
    IF n = 0 THEN ""
    ELSE LET half == Repeat(c, n \div 2) IN
         IF n % 2 = 0 THEN half \o half ELSE half \o half \o c

\* str.replace(c, "") for a one-character c
RECURSIVE RemoveAll(_, _)
RemoveAll(s, c) ==
    IF s = "" THEN ""
    ELSE IF CharAt(s, 1) = c THEN RemoveAll(SubSeq(s, 2, Len(s)), c)
    ELSE CharAt(s, 1) \o RemoveAll(SubSeq(s, 2, Len(s)), c)

Digits == {"0", "1", "2", "3", "4", "5", "6", "7", "8", "9"}

\* str.isdigit() on ASCII text
IsDigit(s) == Len(s) > 0 /\ \A i \in 1 .. Len(s) : CharAt(s, i) \in Digits

\* str.startswith(prefix)
StartsWith(s, prefix) ==
    Len(s) >= Len(prefix) /\ SubSeq(s, 1, Len(prefix)) = prefix

-----------------------------------------------------------------------------
(* Configuration: src/src/config.py *)

Environments == {"development", "production"}

ConfigValues ==
    [WHATSAPP_VERIFY_TOKEN    : {None, "k"},
     WHATSAPP_ACCESS_TOKEN    : {None, "token"},
     WHATSAPP_PHONE_NUMBER_ID : {None, "1055"},
     ENVIRONMENT              : Environments]

\* the configurations that differ in the credentials of the send API only
SendConfigValues ==
    {c \in ConfigValues :
        c.WHATSAPP_VERIFY_TOKEN = "k" /\ c.ENVIRONMENT = "production"}

\* the configurations that differ in what the signature check reads only
SignatureConfigValues ==
    {c \in ConfigValues :
        c.WHATSAPP_ACCESS_TOKEN = "token" /\ c.WHATSAPP_PHONE_NUMBER_ID = "1055"}

\* whatsapp.py:41-42 copies of the configuration
ACCESS_TOKEN == Config.WHATSAPP_ACCESS_TOKEN
PHONE_NUMBER_ID == Config.WHATSAPP_PHONE_NUMBER_ID

-----------------------------------------------------------------------------
(* Delivery client: send_message, whatsapp.py:613-765 *)

MaxMessageLength == 4096

\* What requests.post can do: answer with a status, a body and headers, or
\* raise.  body is the shape of the JSON in the answer.
Statuses == {200, 201, 400, 401, 403, 404, 429, 500, 501, 502, 503, 504}
BodyShapes == {"messages_with_id", "no_messages", "empty_messages",
               "not_an_object", "not_json"}
Response(status, body, retry_after) ==
    [kind |-> "response", status |-> status, body |-> body,
     retry_after |-> retry_after]
\* The body is read for its message id only under status 200 and the
\* Retry-After header only under status 429.
NetworkOutcomes ==
    {Response(s, "messages_with_id", None) : s \in Statuses}
    \cup {Response(200, b, None) : b \in BodyShapes}
    \cup {Response(429, "not_json", "30")}
    \cup [kind : {"Timeout", "ConnectionError", "RequestException"}]

\* response_data.get("messages", [{}])[0].get("id") raises for a body that
\* is not an object or whose messages list is empty (whatsapp.py:689)
MessageIdRaises(body) == body \in {"empty_messages", "not_an_object"}
MessageId(body) == IF body = "messages_with_id" THEN "wamid.1" ELSE None

ValidationError(msg) == [error |-> msg, error_type |-> "validation"]

\* whatsapp.py:686-744, the classification of a completed call
ClassifyResponse(net) ==
    IF net.status = 200 THEN
        IF MessageIdRaises(net.body)
        THEN [error |-> "Unexpected error sending message",
              error_type |-> "unexpected"]
        ELSE [success |-> TRUE, message_id |-> MessageId(net.body),
              status_code |-> 200]
    ELSE IF net.status = 401 THEN
        [error |-> "WhatsApp API authentication failed - check access token",
         status_code |-> 401, error_type |-> "authentication"]
    ELSE IF net.status = 400 THEN
        [error |-> "Bad request to WhatsApp API",
         status_code |-> 400, error_type |-> "bad_request"]
    ELSE IF net.status = 403 THEN
        [error |-> "WhatsApp API access forbidden - check permissions",
         status_code |-> 403, error_type |-> "forbidden"]
    ELSE IF net.status = 429 THEN
        [error |-> "WhatsApp API rate limit exceeded",
         status_code |-> 429, error_type |-> "rate_limit",
         retry_after |-> net.retry_after]
    ELSE IF net.status >= 500 THEN
        [error |-> "WhatsApp API server error: " \o ToString(net.status),
         status_code |-> net.status, error_type |-> "server_error"]
    ELSE
        [error |-> "Unexpected WhatsApp API response: " \o ToString(net.status),
         status_code |-> net.status, error_type |-> "unexpected"]

\* whatsapp.py:746-759, the transport exceptions
ClassifyException(net) ==
    IF net.kind = "Timeout" THEN
        [error |-> "WhatsApp API request timeout", error_type |-> "timeout"]
    ELSE IF net.kind = "ConnectionError" THEN
        [error |-> "WhatsApp API connection error", error_type |-> "connection"]
    ELSE
        [error |-> "WhatsApp API request failed", error_type |-> "request"]

\* whatsapp.py:634-659: TRUE when send_message reaches requests.post
CallsNetwork(to, message) ==
    /\ Truthy(to) /\ Strip(to) # ""
    /\ Truthy(message) /\ Strip(message) # ""
    /\ Truthy(ACCESS_TOKEN) /\ Truthy(PHONE_NUMBER_ID)
    /\ Len(Strip(message)) <= MaxMessageLength

\* a client that measures the message before it looks for its credentials
send_message_length_first(to, message, net) ==
    IF ~Truthy(to) \/ Strip(to) = "" THEN
        ValidationError("Missing or invalid recipient phone number")
    ELSE IF ~Truthy(message) \/ Strip(message) = "" THEN
        ValidationError("Missing or invalid message content")
    ELSE IF Len(Strip(message)) > MaxMessageLength THEN
        ValidationError("Message too long")
    ELSE IF ~Truthy(ACCESS_TOKEN) \/ ~Truthy(PHONE_NUMBER_ID) THEN
        [error |-> "WhatsApp API credentials not configured",
         error_type |-> "configuration"]
    ELSE IF net.kind = "response" THEN ClassifyResponse(net)
    ELSE ClassifyException(net)

\* send_message(to, message); net is what requests.post does if it is called
send_message(to, message, net) ==
    IF ~Truthy(to) \/ Strip(to) = "" THEN
        ValidationError("Missing or invalid recipient phone number")
    ELSE IF ~Truthy(message) \/ Strip(message) = "" THEN
        ValidationError("Missing or invalid message content")
    ELSE IF ~Truthy(ACCESS_TOKEN) \/ ~Truthy(PHONE_NUMBER_ID) THEN
        [error |-> "WhatsApp API credentials not configured",
         error_type |-> "configuration"]
    ELSE IF Len(Strip(message)) > MaxMessageLength THEN
        ValidationError("Message too long")
    ELSE IF net.kind = "response" THEN ClassifyResponse(net)
    ELSE ClassifyException(net)

\* one entry of the log of send_message calls
SentEntry(to, message) ==
    [to |-> to, message |-> message, network |-> CallsNetwork(to, message)]

-----------------------------------------------------------------------------
(* Retrying sender: send_message_with_retry, whatsapp.py:563-610 *)

RetryableStatuses == {429, 500, 502, 503, 504}

NoArgs == [from_number |-> None, message |-> None, max_retries |-> 0]
NoResult == [none |-> TRUE]

\* send_message has not been called on its own
NoCall == [none |-> TRUE]
SendIdle ==
    /\ sm_call = NoCall
    /\ sm_result = NoResult

\* whatsapp.py:583
RetrySuccess(n) == [success |-> TRUE, attempt |-> n + 1]

\* a sender that reports the loop index instead of the number of attempts
RetryFailureReportsIndex(r, n) ==
    [success |-> FALSE, error |-> Get(r, "error"), attempts |-> n]

\* a sender that reports a generic error instead of the attempt's
RetryFailureGeneric(r, n) ==
    [success |-> FALSE, error |-> "Max retries exceeded", attempts |-> n + 1]

\* whatsapp.py:595
RetryFailure(r, n) ==
    [success |-> FALSE, error |-> Get(r, "error"), attempts |-> n + 1]

\* a sender that tries again after any status of 429 or above
ShouldRetryAnyHighStatus(r, n, max_retries) ==
    /\ "status_code" \in DOMAIN r
    /\ r.status_code >= 429
    /\ n < max_retries

\* whatsapp.py:587-588: TRUE when the loop continues after a failed attempt
ShouldRetry(r, n, max_retries) ==
    /\ "status_code" \in DOMAIN r
    /\ r.status_code \in RetryableStatuses
    /\ n < max_retries

\* The call: binds the arguments and enters the loop; range(max_retries + 1)
\* is empty for a negative max_retries and the function returns at line 610.
CallRetry(from_number, message, max_retries) ==
    /\ rs_args' = [from_number |-> from_number, message |-> message,
                   max_retries |-> max_retries]
    /\ attempt' = 0
    /\ send_result' = NoResult
    /\ IF max_retries + 1 <= 0
       THEN /\ rs_pc' = "returned"
            /\ rs_ret' = [success |-> FALSE, error |-> "Max retries exceeded",
                          attempts |-> max_retries + 1]
       ELSE /\ rs_pc' = "loop"
            /\ rs_ret' = NoResult

\* One iteration of the loop, whatsapp.py:578-595.  send_message returns a
\* dict on every path, so the handler at 597-608 has nothing to catch.
SendAttempt ==
    /\ rs_pc = "loop"
    /\ \E net \in NetworkOutcomes :
         LET r == send_message(rs_args.from_number, rs_args.message, net) IN
         /\ send_result' = r
         /\ sent' = Append(sent, SentEntry(rs_args.from_number, rs_args.message))
         /\ IF ~Truthy(Get(r, "error")) THEN
                /\ rs_pc' = "returned"
                /\ rs_ret' = RetrySuccess(attempt)
                /\ attempt' = attempt
            ELSE IF ShouldRetry(r, attempt, rs_args.max_retries) THEN
                /\ rs_pc' = "loop"
                /\ rs_ret' = rs_ret
                /\ attempt' = attempt + 1
            ELSE
                /\ rs_pc' = "returned"
                /\ rs_ret' = RetryFailure(r, attempt)
                /\ attempt' = attempt
    /\ UNCHANGED rs_args
    /\ RetryFrame

-----------------------------------------------------------------------------
(* User registry: db/models.py and services/user_service.py.  The          *)
(* operators take the dict and return the dict after the call.             *)

NoUser == [none |-> TRUE]

\* models.py:56-57, 64-65, user_service.py:38-39
WithPlus(phone_number) ==
    IF StartsWith(phone_number, "+") THEN phone_number ELSE "+" \o phone_number

HasKey(db, key) == \E i \in 1 .. Len(db) : db[i].phone_number = key
KeyIndex(db, key) == CHOOSE i \in 1 .. Len(db) : db[i].phone_number = key

\* models.py:53-58
get_user(db, phone_number) ==
    IF HasKey(db, WithPlus(phone_number))
    THEN db[KeyIndex(db, WithPlus(phone_number))]
    ELSE NoUser

\* models.py:14-27
User(phone_number) ==
    [phone_number |-> WithPlus(phone_number), message_count |-> 0,
     is_active |-> TRUE]

\* users_db[key] = user: a dict keeps the position of a key it already has
DictSet(db, key, user) ==
    IF HasKey(db, key)
    THEN [db EXCEPT ![KeyIndex(db, key)] = user]
    ELSE Append(db, user)

\* models.py:61-69
create_user(db, phone_number) ==
    DictSet(db, WithPlus(phone_number), User(WithPlus(phone_number)))

\* models.py:72-78
update_user_activity(db, phone_number) ==
    IF HasKey(db, WithPlus(phone_number))
    THEN [db EXCEPT ![KeyIndex(db, WithPlus(phone_number))].message_count = @ + 1]
    ELSE db

\* a registry that hands every user to a broadcast, active or not
AllUsersAsActive(db) == db

\* models.py:81-83 and user_service.py:101-115
get_all_active_users(db) == SelectSeq(db, LAMBDA u : u.is_active)

\* user_service.py:56-74
get_user_by_phone(db, phone_number) ==
    IF ~Truthy(phone_number) THEN NoUser
    ELSE get_user(db, WithPlus(Strip(phone_number)))

\* user_service.py:19-54
register_user(db, phone_number) ==
    IF get_user(db, WithPlus(Strip(phone_number))) # NoUser THEN db
    ELSE create_user(db, WithPlus(Strip(phone_number)))

\* user_service.py:76-99
update_last_activity(db, phone_number) ==
    IF ~Truthy(phone_number) THEN db ELSE update_user_activity(db, phone_number)

\* user_service.py:157-193; it raises ValueError and changes nothing for an
\* empty phone_number
ProcessUserMessageRaises(phone_number) == ~Truthy(phone_number)
UserService_process_user_message(db, phone_number) ==
    IF ProcessUserMessageRaises(phone_number) THEN db
    ELSE IF get_user_by_phone(db, phone_number) # NoUser
         THEN update_last_activity(db, phone_number)
         ELSE update_last_activity(register_user(db, phone_number), phone_number)

\* user_service.py:117-155
SetActive(db, phone_number, flag) ==
    IF get_user_by_phone(db, phone_number) = NoUser THEN db
    ELSE [db EXCEPT ![KeyIndex(db, WithPlus(Strip(phone_number)))].is_active = flag]
deactivate_user(db, phone_number) == SetActive(db, phone_number, FALSE)
reactivate_user(db, phone_number) == SetActive(db, phone_number, TRUE)

\* UserService.process_user_message has not been called on its own
CallsIdle == um_calls = << >>

\* the user service works: the call at whatsapp.py:411 does not raise
NoFaults == registry_raises = FALSE

\* the message_count of a user, 0 when there is no such user
MessageCount(db, phone_number) ==
    IF get_user_by_phone(db, phone_number) = NoUser THEN 0
    ELSE get_user_by_phone(db, phone_number).message_count

-----------------------------------------------------------------------------
(* Broadcast coordinator: admin.py:59-226 *)

\* admin.py:198-226; the glyphs of priority_indicators are written as tags
format_alert_message(message, priority) ==
    LET p == IF Truthy(priority) THEN priority ELSE "medium"
        indicator == IF p = "low" THEN "(i)"
                     ELSE IF p = "high" THEN "(!!)" ELSE "(!)"
        label == IF p = "low" THEN "INFO"
                 ELSE IF p = "high" THEN "URGENT" ELSE "ALERT"
    IN indicator \o " " \o label \o ": " \o message
         \o "\n\nSIH Health Assistant"

\* admin.py:51-56
BroadcastResult(phone_number, success, error_message) ==
    [phone_number |-> phone_number, success |-> success,
     error_message |-> error_message]

\* admin.py:167-195
send_alert_to_user(phone_number, message, net) ==
    LET r == send_message(phone_number, message, net) IN
    IF Truthy(Get(r, "error"))
    THEN BroadcastResult(phone_number, FALSE, r.error)
    ELSE BroadcastResult(phone_number, TRUE, None)

\* a sender that makes up to two further attempts at a recipient the
\* provider keeps rate limiting
AlertAttemptsWithRetry(phone_number, message, net) ==
    IF net.kind = "response" /\ net.status = 429
    THEN <<SentEntry(phone_number, message), SentEntry(phone_number, message),
           SentEntry(phone_number, message)>>
    ELSE <<SentEntry(phone_number, message)>>

\* admin.py:183: the send_message calls send_alert_to_user makes
AlertAttempts(phone_number, message, net) ==
    <<SentEntry(phone_number, message)>>

\* a count that takes every result for a delivery
CountAllResults(results) == Len(results)

\* admin.py:114
CountSuccessful(results) == Len(SelectSeq(results, LAMBDA r : r.success))

\* admin.py:118-122
RECURSIVE ErrorList(_)
ErrorList(results) ==
    IF results = << >> THEN << >>
    ELSE LET r == Head(results) IN
         IF ~r.success /\ Truthy(r.error_message)
         THEN <<r.phone_number \o ": " \o r.error_message>>
                \o ErrorList(Tail(results))
         ELSE ErrorList(Tail(results))

\* a response that carries the list of errors even when it is empty
AlertResponseWithEmptyErrors(targeted, successful, failed, errors) ==
    [success |-> TRUE, users_targeted |-> targeted,
     successful_deliveries |-> successful,
     failed_deliveries |-> failed, message_id |-> "alert",
     errors |-> errors]

\* admin.py:40-48; a field that is None is left out of the record
AlertResponse(targeted, successful, failed, errors) ==
    LET base == [success |-> TRUE, users_targeted |-> targeted,
                 successful_deliveries |-> successful,
                 failed_deliveries |-> failed, message_id |-> "alert"]
    IN IF errors = << >> THEN base
       ELSE [k \in DOMAIN base \cup {"errors"} |->
                IF k = "errors" THEN errors ELSE base[k]]

\* admin.py:113-156
Summary(results, users_targeted) ==
    AlertResponse(users_targeted, CountSuccessful(results),
                  users_targeted - CountSuccessful(results),
                  ErrorList(results))

NoResponse == [none |-> TRUE]

\* requests that pass the AlertRequest validation, admin.py:25-37
AlertMessages == {"Boil water"}
Priorities == {"low", "medium", "high", None}

\* admin.py:82-111: the handler is called, loads the recipients and either
\* returns the empty summary or enters the loop
broadcast_alert ==
    /\ bc_pc = "idle"
    /\ \E message \in AlertMessages, priority \in Priorities :
         formatted_message' = format_alert_message(message, priority)
    /\ active_users' = get_all_active_users(users_db)
    /\ broadcast_results' = << >>
    /\ sent' = << >>
    /\ IF Len(get_all_active_users(users_db)) = 0
       THEN /\ bc_pc' = "returned"
            /\ alert_response' = AlertResponse(0, 0, 0, << >>)
       ELSE /\ bc_pc' = "sending"
            /\ alert_response' = NoResponse
    /\ BroadcastFrame

\* admin.py:109-156: one iteration of the loop; the last one is followed by
\* the statistics and the return
SendAlert ==
    /\ bc_pc = "sending"
    /\ \E net \in NetworkOutcomes :
         LET user == active_users[Len(broadcast_results) + 1]
             results == Append(broadcast_results,
                               send_alert_to_user(user.phone_number,
                                                  formatted_message, net))
         IN /\ broadcast_results' = results
            /\ sent' = sent \o AlertAttempts(user.phone_number,
                                              formatted_message, net)
            /\ IF Len(results) = Len(active_users)
               THEN /\ bc_pc' = "returned"
                    /\ alert_response' = Summary(results, Len(active_users))
               ELSE /\ bc_pc' = "sending"
                    /\ alert_response' = alert_response
    /\ UNCHANGED <<active_users, formatted_message>>
    /\ BroadcastFrame

\* the response has gone out and the locals of the handler are dropped
BroadcastIdle ==
    /\ bc_pc = "idle"
    /\ active_users = << >>
    /\ formatted_message = ""
    /\ broadcast_results = << >>
    /\ alert_response = NoResponse

BroadcastReturn ==
    /\ bc_pc = "returned"
    /\ bc_pc' = "idle"
    /\ active_users' = << >>
    /\ formatted_message' = ""
    /\ broadcast_results' = << >>
    /\ alert_response' = NoResponse
    /\ UNCHANGED sent
    /\ BroadcastFrame

-----------------------------------------------------------------------------
(* Signature verifier: webhook_security.py:20-81 *)

\* what a call does: return a value or raise WebhookValidationError
Returned(v) == [returned |-> v]
Raised(message) == [raised |-> message]
NotCalled == [none |-> TRUE]

\* The byte 0x00 is written "@" in the byte strings of this model.
NUL == "@"

\* hmac.new(key, msg, hashlib.sha256) pads a key of at most one SHA-256 block
\* with zero bytes up to the block and replaces a longer key by its digest
\* (webhook_security.py:65).
Sha256BlockSize == 64
Sha256(bytes) == "sha256<" \o bytes \o ">"
HmacKey(key) ==
    IF Len(key) > Sha256BlockSize THEN Sha256(key)
    ELSE key \o Repeat(NUL, Sha256BlockSize - Len(key))

\* hmac.new(key, msg, hashlib.sha256).hexdigest(), with SHA-256 taken to be
\* free of collisions: the digest names the block-sized key and the message
HmacSha256Hex(key, msg) == "hmac<" \o HmacKey(key) \o "|" \o msg \o ">"

\* a verifier that checks the header's shape and never the digest
verify_shape_only(payload, signature, secret) ==
    IF ~Truthy(signature) THEN Returned(FALSE)
    ELSE IF ~StartsWith(signature, "sha256=") THEN
        Raised("Invalid signature format - must start with 'sha256='")
    ELSE Returned(TRUE)

\* a verifier that answers False to a header of another shape
verify_malformed_is_false(payload, signature, secret) ==
    LET webhook_secret ==
            IF Truthy(secret) THEN secret ELSE Config.WHATSAPP_VERIFY_TOKEN
    IN
    IF ~Truthy(webhook_secret) THEN Returned(TRUE)
    ELSE IF Config.ENVIRONMENT = "development" THEN Returned(TRUE)
    ELSE IF ~Truthy(signature) THEN Returned(FALSE)
    ELSE IF ~StartsWith(signature, "sha256=") THEN Returned(FALSE)
    ELSE Returned(HmacSha256Hex(webhook_secret, payload)
                      = SubSeq(signature, 8, Len(signature)))

\* a verifier that checks the header first and then whether it has a secret
verify_header_first(payload, signature, secret) ==
    LET webhook_secret ==
            IF Truthy(secret) THEN secret ELSE Config.WHATSAPP_VERIFY_TOKEN
    IN
    IF ~Truthy(signature) THEN Returned(FALSE)
    ELSE IF ~StartsWith(signature, "sha256=") THEN
        Raised("Invalid signature format - must start with 'sha256='")
    ELSE IF ~Truthy(webhook_secret) THEN Returned(TRUE)
    ELSE IF Config.ENVIRONMENT = "development" THEN Returned(TRUE)
    ELSE Returned(HmacSha256Hex(webhook_secret, payload)
                      = SubSeq(signature, 8, Len(signature)))

\* webhook_security.py:20-81
verify_webhook_signature(payload, signature, secret) ==
    LET webhook_secret ==
            IF Truthy(secret) THEN secret ELSE Config.WHATSAPP_VERIFY_TOKEN
    IN
    IF ~Truthy(webhook_secret) THEN Returned(TRUE)
    ELSE IF Config.ENVIRONMENT = "development" THEN Returned(TRUE)
    ELSE IF ~Truthy(signature) THEN Returned(FALSE)
    ELSE IF ~StartsWith(signature, "sha256=") THEN
        Raised("Invalid signature format - must start with 'sha256='")
    ELSE LET received_hash == SubSeq(signature, 8, Len(signature))
             expected_signature == HmacSha256Hex(webhook_secret, payload)
         IN Returned(expected_signature = received_hash)

\* the header the provider computes for a body under a secret
SignatureHeader(secret, body) == "sha256=" \o HmacSha256Hex(secret, body)

-----------------------------------------------------------------------------
(* Phone canonicalization: webhook_security.py:171-204 *)

MinPhoneDigits == 7
MaxPhoneDigits == 15

\* a sanitizer that prefixes "+" without looking for one
sanitize_always_prefixes(phone_number) ==
    IF ~Truthy(phone_number) THEN Raised("Invalid phone number format")
    ELSE IF ~IsDigit(RemoveAll(Strip(phone_number), "+")) THEN
        Raised("Phone number contains invalid characters")
    ELSE IF Len(Strip(phone_number)) < MinPhoneDigits
              \/ Len(Strip(phone_number)) > MaxPhoneDigits THEN
        Raised("Phone number length is invalid")
    ELSE Returned("+" \o Strip(phone_number))

\* webhook_security.py:171-204
sanitize_phone_number(phone_number) ==
    IF ~Truthy(phone_number) THEN Raised("Invalid phone number format")
    ELSE LET stripped == Strip(phone_number) IN
    IF ~IsDigit(RemoveAll(stripped, "+")) THEN
        Raised("Phone number contains invalid characters")
    ELSE LET sanitized == IF StartsWith(stripped, "+") THEN stripped
                          ELSE "+" \o stripped
             digits_only == SubSeq(sanitized, 2, Len(sanitized))
         IN IF Len(digits_only) < MinPhoneDigits
                 \/ Len(digits_only) > MaxPhoneDigits
            THEN Raised("Phone number length is invalid")
            ELSE Returned(sanitized)

PhoneIdle ==
    /\ ph_input = None
    /\ ph_result = NotCalled
    /\ ph_again = NotCalled

-----------------------------------------------------------------------------
(* Webhook payloads: parsed JSON and the validators of                     *)
(* webhook_security.py:84-168 and 207-256.                                 *)
(* A parsed JSON value is a record with one field that names its Python    *)
(* type: dict (a function from keys to values), list, str, num or null.    *)

JNull == [null |-> TRUE]
JStr(s) == [str |-> s]
JNum(n) == [num |-> n]
JList(l) == [list |-> l]
JDict(d) == [dict |-> d]
EmptyDict == JDict(<< >>)

IsDict(v) == "dict" \in DOMAIN v
IsList(v) == "list" \in DOMAIN v
IsStr(v) == "str" \in DOMAIN v

\* key in d
In(key, v) == key \in DOMAIN v.dict
\* d.get(key, default)
JGet(v, key, default) == IF In(key, v) THEN v.dict[key] ELSE default

\* bool(v) for a parsed JSON value
JTruthy(v) ==
    IF IsStr(v) THEN v.str # ""
    ELSE IF IsList(v) THEN Len(v.list) > 0
    ELSE IF IsDict(v) THEN DOMAIN v.dict # {}
    ELSE IF "num" \in DOMAIN v THEN v.num # 0
    ELSE FALSE

\* str(v) as an f-string renders it, for the values the validators print
PyStr(v) ==
    IF IsStr(v) THEN v.str
    ELSE IF "num" \in DOMAIN v THEN ToString(v.num)
    ELSE IF "null" \in DOMAIN v THEN "None"
    ELSE IF IsList(v) THEN "[...]"
    ELSE "{...}"

Passed == Returned(None)

\* a validator that lets an empty 'entry' array through
validate_allows_empty_entry(payload) ==
    IF ~IsDict(payload) THEN Raised("Payload must be a JSON object")
    ELSE IF ~In("object", payload) THEN
        Raised("Missing 'object' field in webhook payload")
    ELSE IF JGet(payload, "object", JNull) # JStr("whatsapp_business_account")
    THEN Raised("Invalid object type: " \o PyStr(JGet(payload, "object", JNull)))
    ELSE IF ~In("entry", payload) THEN
        Raised("Missing 'entry' field in webhook payload")
    ELSE IF ~IsList(payload.dict["entry"]) THEN
        Raised("'entry' field must be an array")
    ELSE Passed

\* webhook_security.py:84-113
validate_webhook_payload_structure(payload) ==
    IF ~IsDict(payload) THEN Raised("Payload must be a JSON object")
    ELSE IF ~In("object", payload) THEN
        Raised("Missing 'object' field in webhook payload")
    ELSE IF JGet(payload, "object", JNull) # JStr("whatsapp_business_account")
    THEN Raised("Invalid object type: " \o PyStr(JGet(payload, "object", JNull)))
    ELSE IF ~In("entry", payload) THEN
        Raised("Missing 'entry' field in webhook payload")
    ELSE IF ~IsList(payload.dict["entry"]) THEN
        Raised("'entry' field must be an array")
    ELSE IF Len(payload.dict["entry"].list) = 0 THEN
        Raised("'entry' array cannot be empty")
    ELSE Passed

\* webhook_security.py:116-137
validate_webhook_entry(entry) ==
    IF ~IsDict(entry) THEN Raised("Webhook entry must be an object")
    ELSE IF ~In("id", entry) THEN
        Raised("Missing required field 'id' in webhook entry")
    ELSE IF ~In("changes", entry) THEN
        Raised("Missing required field 'changes' in webhook entry")
    ELSE IF ~IsList(entry.dict["changes"]) THEN
        Raised("'changes' field must be an array")
    ELSE Passed

\* webhook_security.py:140-168
validate_webhook_change(change) ==
    IF ~IsDict(change) THEN Raised("Webhook change must be an object")
    ELSE IF ~In("value", change) THEN
        Raised("Missing required field 'value' in webhook change")
    ELSE IF ~In("field", change) THEN
        Raised("Missing required field 'field' in webhook change")
    ELSE IF JGet(change, "field", JNull) # JStr("messages") THEN Passed
    ELSE IF ~IsDict(JGet(change, "value", EmptyDict)) THEN
        Raised("Webhook change 'value' must be an object")
    ELSE Passed

\* sanitize_phone_number on a parsed value: line 184 turns away whatever is
\* not a non-empty str
sanitize_json_phone(v) ==
    IF ~JTruthy(v) \/ ~IsStr(v) THEN Raised("Invalid phone number format")
    ELSE sanitize_phone_number(v.str)

\* an extraction that checks the id only and takes the sender as it comes
extract_unchecked_sender(message) ==
    IF ~IsDict(message) THEN Raised("Message must be an object")
    ELSE IF ~JTruthy(JGet(message, "id", JNull)) THEN
        Raised("Message missing ID")
    ELSE Returned(
        [id |-> JGet(message, "id", JNull),
         from |-> IF "returned" \in DOMAIN sanitize_json_phone(JGet(message, "from", JNull))
                  THEN sanitize_json_phone(JGet(message, "from", JNull)).returned
                  ELSE "+15550009",
         timestamp |-> JGet(message, "timestamp", JNull),
         type |-> JGet(message, "type", JStr("unknown")),
         content |-> JNull])

\* webhook_security.py:207-256
extract_message_content(message) ==
    IF ~IsDict(message) THEN Raised("Message must be an object")
    ELSE IF ~JTruthy(JGet(message, "id", JNull)) THEN
        Raised("Message missing ID")
    ELSE IF ~JTruthy(JGet(message, "from", JNull)) THEN
        Raised("Message missing sender information")
    ELSE LET from == sanitize_json_phone(JGet(message, "from", JNull))
             type == JGet(message, "type", JStr("unknown"))
             text_content == JGet(message, "text", EmptyDict)
         IN
         IF "raised" \in DOMAIN from THEN
             Raised("Invalid sender phone number: " \o from.raised)
         ELSE Returned(
             [id |-> JGet(message, "id", JNull),
              from |-> from.returned,
              timestamp |-> JGet(message, "timestamp", JNull),
              type |-> type,
              content |-> IF type = JStr("text")
                          THEN IF IsDict(text_content)
                               THEN JGet(text_content, "body", JStr(""))
                               ELSE JStr("")
                          ELSE JNull])

-----------------------------------------------------------------------------
(* Response generator: services/message_service.py.  The long reply texts  *)
(* of demo_responses are named by their key.                               *)

UpperCase == "ABCDEFGHIJKLMNOPQRSTUVWXYZ"
LowerCase == "abcdefghijklmnopqrstuvwxyz"

LowerChar(c) ==
    IF \E i \in 1 .. Len(UpperCase) : CharAt(UpperCase, i) = c
    THEN CharAt(LowerCase, CHOOSE i \in 1 .. Len(UpperCase) :
                               CharAt(UpperCase, i) = c)
    ELSE c

\* str.lower()
RECURSIVE Lower(_)
Lower(s) ==
    IF s = "" THEN "" ELSE LowerChar(CharAt(s, 1)) \o Lower(SubSeq(s, 2, Len(s)))

\* sub in s
Contains(s, sub) ==
    \E i \in 1 .. Len(s) - Len(sub) + 1 : SubSeq(s, i, i + Len(sub) - 1) = sub

\* \w of the regular expressions
WordChar(c) ==
    \/ c \in Digits
    \/ c = "_"
    \/ \E i \in 1 .. Len(LowerCase) :
           c = CharAt(LowerCase, i) \/ c = CharAt(UpperCase, i)

\* the word w stands at position i of s with \b after it
WordEndsAt(s, w, i) ==
    /\ i + Len(w) - 1 <= Len(s)
    /\ SubSeq(s, i, i + Len(w) - 1) = w
    /\ i + Len(w) - 1 = Len(s) \/ ~WordChar(CharAt(s, i + Len(w)))

\* \b before position i of s, where a word character stands
WordStartsAt(s, i) == i = 1 \/ ~WordChar(CharAt(s, i - 1))

\* re.search(r"\b(w1|w2|...)\b", s)
SearchWords(s, words) ==
    \E i \in 1 .. Len(s), w \in words : WordStartsAt(s, i) /\ WordEndsAt(s, w, i)

\* re.search(r"\b(good\s+(morning|afternoon|evening))\b", s)
SearchGoodTime(s) ==
    \E i \in 1 .. Len(s), j \in 1 .. Len(s) :
        /\ WordStartsAt(s, i)
        /\ i + 3 <= Len(s)
        /\ SubSeq(s, i, i + 3) = "good"
        /\ j > i + 4
        /\ \A k \in i + 4 .. j - 1 : CharAt(s, k) \in Whitespace
        /\ \E w \in {"morning", "afternoon", "evening"} : WordEndsAt(s, w, j)

\* message_service.py:101-114
is_greeting(message) ==
    \/ SearchWords(Lower(message), {"hi", "hello", "hey", "hola", "namaste"})
    \/ SearchGoodTime(Lower(message))
    \/ SearchWords(Lower(message), {"start", "begin"})

DemoResponse(key) == "demo_responses['" \o key \o "']"

ContainsAny(s, keywords) == \E keyword \in keywords : Contains(s, keyword)

\* message_service.py:51-99: the content of the MessageResponse
generate_response(message) ==
    IF message = "" \/ Strip(message) = "" THEN
        "Please send me a message to get started!"
    ELSE LET message_lower == Strip(Lower(message)) IN
    IF is_greeting(message_lower) THEN DemoResponse("welcome")
    ELSE IF ContainsAny(message_lower, {"demo", "showcase", "presentation"})
    THEN DemoResponse("demo")
    ELSE IF ContainsAny(message_lower, {"feature", "capability", "what can you"})
    THEN DemoResponse("features")
    ELSE IF ContainsAny(message_lower, {"health", "medical", "doctor", "medicine"})
    THEN DemoResponse("health")
    ELSE IF ContainsAny(message_lower, {"sih", "hackathon", "competition", "odisha"})
    THEN DemoResponse("sih")
    ELSE IF ContainsAny(message_lower, {"judge", "evaluation", "panel", "assess"})
    THEN DemoResponse("judges")
    ELSE IF ContainsAny(message_lower, {"architecture", "tech", "technical", "system"})
    THEN DemoResponse("architecture")
    ELSE IF ContainsAny(message_lower, {"broadcast", "alert", "admin", "send all"})
    THEN DemoResponse("broadcast")
    ELSE IF ContainsAny(message_lower, {"help", "support", "assist"})
    THEN "get_help_message()"
    ELSE DemoResponse("default")

\* message_service.py:149-166: the content of the MessageResponse
process_error_message(error_type) ==
    IF error_type = "network" THEN
        "I'm having connectivity issues. Please try sending your message again."
    ELSE IF error_type = "processing" THEN
        "I couldn't process your message properly. Could you try rephrasing it?"
    ELSE "Sorry, I'm having trouble right now. Please try again later."

\* whatsapp.py:511-524 (the sticker reply without its emoji)
non_text_responses(message_type) ==
    IF message_type = "image" THEN "Thanks for the image! I currently support text messages. Please send me a text to get health information."
    ELSE IF message_type = "document" THEN "Thanks for the document! I currently support text messages. Please send me a text to get health information."
    ELSE IF message_type = "audio" THEN "Thanks for the audio message! I currently support text messages. Please send me a text to get health information."
    ELSE IF message_type = "video" THEN "Thanks for the video! I currently support text messages. Please send me a text to get health information."
    ELSE IF message_type = "sticker" THEN "Thanks for the sticker! Please send me a text message to get health information."
    ELSE IF message_type = "location" THEN "Thanks for sharing your location! I currently support text messages. Please send me a text to get health information."
    ELSE IF message_type = "contacts" THEN "Thanks for the contact! I currently support text messages. Please send me a text to get health information."
    ELSE "Thanks for your message! I currently support text messages. Please send me a text to get started."

-----------------------------------------------------------------------------
(* Request bodies: the JSON texts the provider or anyone else may post     *)

\* sequences over S of 2 to MaxSiblings items
Several(S) == UNION { [1 .. n -> S] : n \in 2 .. MaxSiblings }
Single(S) == { <<x>> : x \in S }

TextMessage(from, body) ==
    JDict([id |-> JStr("wamid.1"), from |-> JStr(from),
           timestamp |-> JStr("1700000000"), type |-> JStr("text"),
           text |-> JDict([body |-> body])])
MediaMessage(from, type) ==
    JDict([id |-> JStr("wamid.2"), from |-> JStr(from),
           timestamp |-> JStr("1700000001"), type |-> JStr(type)])

CoreMessages ==
    { TextMessage("15550001", JStr("hello")),
      MediaMessage("+15550002", "image") }
OddMessages ==
    { TextMessage("15550001", JStr("")),
      TextMessage(" 15550001 ", JStr("I need HELP")),
      TextMessage("15550001", JStr(" \n")),
      TextMessage("15550001", JNum(5)),
      TextMessage("15550001", JList(<<JStr("hello")>>)),
      JDict([id |-> JStr("wamid.3"), from |-> JStr("15550001"),
             type |-> JList(<<JStr("image")>>)]),
      TextMessage("++1555000", JStr("demo")),
      TextMessage("abc", JStr("hello")),
      MediaMessage("+15550002", "reaction"),
      JDict([id |-> JStr("wamid.3"), from |-> JStr("15550001"),
             type |-> JStr("text"), text |-> JStr("hello")]),
      JDict([id |-> JStr("wamid.3"), from |-> JStr("15550001"),
             type |-> JStr("text")]),
      JDict([id |-> JStr("wamid.3"), from |-> JStr("15550001")]),
      JDict([from |-> JStr("15550001"), type |-> JStr("text"),
             text |-> JDict([body |-> JStr("hello")])]),
      JDict([id |-> JStr(""), from |-> JStr("15550001"), type |-> JStr("image")]),
      JDict([id |-> JStr("wamid.3"), type |-> JStr("image")]),
      JDict([id |-> JStr("wamid.3"), from |-> JNum(15550001),
             type |-> JStr("image")]),
      JStr("hello") }
Messages == CoreMessages \cup OddMessages

MessagesChange(messages) ==
    JDict([field |-> JStr("messages"),
           value |-> JDict([messaging_product |-> JStr("whatsapp"),
                            messages |-> messages])])
StatusesChange ==
    JDict([field |-> JStr("statuses"),
           value |-> JDict([statuses |-> JList(<<JDict([id |-> JStr("wamid.0")])>>)])])

CoreChanges ==
    { MessagesChange(JList(<<TextMessage("15550001", JStr("hello"))>>)),
      JDict([field |-> JStr("messages")]) }
OddChanges ==
    { StatusesChange,
      MessagesChange(JList(<< >>)),
      MessagesChange(JNull),
      MessagesChange(JStr("hi")),
      MessagesChange(TextMessage("15550001", JStr("hello"))),
      MessagesChange(JList(<<TextMessage("abc", JStr("hello")),
                             TextMessage("15550001", JStr("hello"))>>)),
      JDict([field |-> JStr("messages"),
             value |-> JDict([messaging_product |-> JStr("whatsapp")])]),
      JDict([field |-> JStr("messages"), value |-> JStr("hello")]),
      JDict([field |-> JStr("statuses"), value |-> JStr("hello")]),
      JDict([value |-> EmptyDict]),
      JStr("messages") }
Changes ==
    { MessagesChange(JList(m)) : m \in Single(Messages) \cup Several(CoreMessages) }
    \cup CoreChanges \cup OddChanges

Entry(changes) == JDict([id |-> JStr("1055"), changes |-> changes])

CoreEntries ==
    { Entry(JList(<<MessagesChange(JList(<<TextMessage("15550001", JStr("hello"))>>))>>)),
      JDict([id |-> JStr("1055")]) }
OddEntries ==
    { JStr("1055"),
      Entry(JList(<< >>)),
      Entry(EmptyDict),
      JDict([changes |-> JList(<<StatusesChange>>)]),
      JNull }
Entries ==
    { Entry(JList(c)) : c \in Single(Changes) \cup Several(CoreChanges) }
    \cup CoreEntries \cup OddEntries

Envelope(entries) ==
    JDict([object |-> JStr("whatsapp_business_account"), entry |-> entries])

OddEnvelopes ==
    { JList(<< >>), JStr("hello"), JNull, JNum(7), EmptyDict,
      JDict([entry |-> JList(<<JStr("1055")>>)]),
      JDict([object |-> JStr("page"), entry |-> JList(<<JStr("1055")>>)]),
      JDict([object |-> JNull]),
      JDict([object |-> JStr("whatsapp_business_account")]),
      Envelope(EmptyDict),
      Envelope(JList(<< >>)) }
Payloads ==
    { Envelope(JList(e)) : e \in Single(Entries) \cup Several(CoreEntries) }
    \cup OddEnvelopes

\* messages of different senders, so that every send can be told to belong
\* to one message of its payload
DistinctMessages ==
    { TextMessage("15550001", JStr("hello")),
      MediaMessage("+15550002", "image"),
      TextMessage("15550003", JStr("demo")) }
Injective(f) == \A i, j \in DOMAIN f : f[i] = f[j] => i = j
DistinctSeveral == { m \in Several(DistinctMessages) : Injective(m) }

OneChange(messages) == Envelope(JList(<<Entry(JList(<<MessagesChange(messages)>>))>>))
DispatchPayloads ==
    { OneChange(JList(m)) : m \in Single(Messages) \cup DistinctSeveral }
    \cup { OneChange(JList(<<TextMessage("abc", JStr("hello")),
                             TextMessage("15550001", JStr("hello"))>>)),
           \* two changes of one entry
           Envelope(JList(<<Entry(JList(
               <<MessagesChange(JList(<<TextMessage("15550001", JStr("hello"))>>)),
                 MessagesChange(JList(<<MediaMessage("+15550002", "image")>>))>>))>>)),
           \* two entries
           Envelope(JList(
               <<Entry(JList(<<MessagesChange(JList(
                     <<TextMessage("15550001", JStr("hello"))>>))>>)),
                 Entry(JList(<<MessagesChange(JList(
                     <<MediaMessage("+15550002", "image")>>))>>))>>)) }
\* the keys of the objects above, in the order they are written
KeyOrder ==
    <<"object", "entry", "id", "changes", "field", "value", "messaging_product",
      "messages", "statuses", "from", "timestamp", "type", "text", "body">>

\* json.dumps(v, separators=(",", ":")) for strings that need no escape
RECURSIVE Dumps(_), DumpsItems(_), DumpsMembers(_, _)
Dumps(v) ==
    IF IsStr(v) THEN "\"" \o v.str \o "\""
    ELSE IF "num" \in DOMAIN v THEN ToString(v.num)
    ELSE IF "null" \in DOMAIN v THEN "null"
    ELSE IF IsList(v) THEN "[" \o DumpsItems(v.list) \o "]"
    ELSE "{" \o DumpsMembers(v.dict, SelectSeq(KeyOrder, LAMBDA k : k \in DOMAIN v.dict)) \o "}"
DumpsItems(l) ==
    IF l = << >> THEN ""
    ELSE IF Len(l) = 1 THEN Dumps(l[1])
    ELSE Dumps(l[1]) \o "," \o DumpsItems(Tail(l))
DumpsMembers(d, keys) ==
    IF keys = << >> THEN ""
    ELSE "\"" \o keys[1] \o "\":" \o Dumps(d[keys[1]])
         \o (IF Len(keys) = 1 THEN "" ELSE "," \o DumpsMembers(d, Tail(keys)))

\* The byte 0xFF, which no UTF-8 text holds, is written "^".
BYTE_FF == "^"

\* bytes.decode("utf-8")
Utf8Decode(bytes) ==
    IF \E i \in 1 .. Len(bytes) : CharAt(bytes, i) = BYTE_FF
    THEN Raised("UnicodeDecodeError")
    ELSE Returned(bytes)

\* json.loads(text): the value whose JSON text this is, JSONDecodeError for
\* a text that is not JSON
json_loads(text) ==
    IF \E v \in Payloads \cup DispatchPayloads : Dumps(v) = text
    THEN Returned(CHOOSE v \in Payloads \cup DispatchPayloads : Dumps(v) = text)
    ELSE Raised("JSONDecodeError")

RawBodies ==
    { Dumps(v) : v \in Payloads } \cup {"", "{\"object\":", "{}" \o BYTE_FF}

-----------------------------------------------------------------------------
(* Webhook dispatcher: receive_message and the functions under it,         *)
(* whatsapp.py:141-560.  One action is the code between two awaited sends. *)

NoMessage == [none |-> TRUE]
\* body before line 182 has bound it
NoBody == [none |-> TRUE]

\* error_handlers.py:58-88; timestamp is always null and is left out, and so
\* is the request id
create_error_response(error_code, message, status_code, details) ==
    IF details = << >>
    THEN [status_code |-> status_code,
          error |-> [code |-> error_code, message |-> message]]
    ELSE [status_code |-> status_code,
          error |-> [code |-> error_code, message |-> message,
                     details |-> details]]

\* error_handlers.py:153-180
webhook_validation_error_handler(exc_message) ==
    create_error_response("WEBHOOK_VALIDATION_ERROR",
                          "Webhook validation failed: " \o exc_message, 400,
                          [validation_error |-> exc_message])

\* error_handlers.py:276-313
general_exception_handler(exc_type, exc_message) ==
    IF Config.ENVIRONMENT = "production"
    THEN create_error_response("INTERNAL_SERVER_ERROR",
                               "An internal server error occurred", 500, << >>)
    ELSE create_error_response("INTERNAL_SERVER_ERROR",
                               "Unexpected error: " \o exc_message, 500,
                               [error_type |-> exc_type])

\* whatsapp.py:232-236; a null "errors" is left out
Received(n, errors) ==
    IF errors = << >>
    THEN [status_code |-> 200,
          content |-> [status |-> "received", processed_entries |-> n]]
    ELSE [status_code |-> 200,
          content |-> [status |-> "received", processed_entries |-> n,
                       errors |-> errors]]

\* a handler that turns a request away only when the verifier returns False
SignatureRejectedUnlessRaised(raw, header) ==
    verify_webhook_signature(raw, IF Truthy(header) THEN header ELSE "", None)
        = Returned(FALSE)

\* a handler that turns no request away at the signature
SignatureNeverRejected(raw, header) == FALSE

\* whatsapp.py:161-173: TRUE when the request is turned away at the signature
SignatureRejected(raw, header) ==
    LET r == verify_webhook_signature(raw, IF Truthy(header) THEN header ELSE "",
                                      None)
    IN "raised" \in DOMAIN r \/ r = Returned(FALSE)

\* whatsapp.py:175-185.  "import json" at line 180 makes json a local name
\* of receive_message: for an empty body line 178 raises before the import,
\* the except clause at line 183 then reads the unbound local and raises
\* UnboundLocalError, and so does the clause at line 241.
ParseBody(raw) ==
    IF raw = "" THEN
        [raised |-> "cannot access local variable 'json' where it is not associated with a value",
         type |-> "UnboundLocalError"]
    ELSE IF "raised" \in DOMAIN Utf8Decode(raw) THEN
        [raised |-> "Invalid JSON payload format", type |-> "WebhookValidationError"]
    ELSE IF "raised" \in DOMAIN json_loads(Utf8Decode(raw).returned) THEN
        [raised |-> "Invalid JSON payload format", type |-> "WebhookValidationError"]
    ELSE json_loads(Utf8Decode(raw).returned)

\* the items a for loop draws from a parsed value
ItemsOf(v) ==
    IF IsList(v) THEN v.list
    ELSE IF IsStr(v) THEN [i \in 1 .. Len(v.str) |-> JStr(CharAt(v.str, i))]
    ELSE LET keys == SelectSeq(KeyOrder, LAMBDA k : k \in DOMAIN v.dict)
         IN [i \in 1 .. Len(keys) |-> JStr(keys[i])]

\* len(v) raises TypeError
HasNoLen(v) == ~(IsList(v) \/ IsStr(v) \/ IsDict(v))

CurEntry == wh_body.dict["entry"].list[entry_index]
CurChanges == CurEntry.dict["changes"].list
CurChange == CurChanges[change_index]
\* whatsapp.py:338
CurMessagesValue == JGet(JGet(CurChange, "value", EmptyDict), "messages", JList(<< >>))
CurMessages == ItemsOf(CurMessagesValue)
CurMessage == CurMessages[message_index]

WebhookIdle ==
    /\ wh_pc = "idle"
    /\ raw_payload = None
    /\ x_hub_signature_256 = None
    /\ wh_body = NoBody
    /\ entry_index = 0
    /\ change_index = 0
    /\ message_index = 0
    /\ extracted_message = NoMessage
    /\ processed_entries = 0
    /\ processing_errors = << >>
    /\ generated = << >>
    /\ handled = << >>
    /\ wh_response = NoResponse

RetryUntouched == UNCHANGED <<sent, retryVars>>

\* the frame of send_message_with_retry is gone once its result is read
RetryPopped ==
    /\ rs_pc' = "idle"
    /\ rs_args' = NoArgs
    /\ attempt' = 0
    /\ send_result' = NoResult
    /\ rs_ret' = NoResult
    /\ UNCHANGED sent

\* a reply with one more retry than the two of whatsapp.py:564
ThreeRetries == 2 + 1

\* whatsapp.py:564
DefaultMaxRetries == 2

\* a fallback with the retries of a reply
FallbackWithDefaultRetries == DefaultMaxRetries

\* whatsapp.py:550
FallbackMaxRetries == 1

\* The requests: every body under the signature of the secret "k", and a
\* few bodies without a header or under a header that does not verify
UnsignedBodies ==
    {"", "{\"object\":", "{}" \o BYTE_FF, Dumps(EmptyDict),
     Dumps(Envelope(JList(<<JStr("1055")>>))),
     Dumps(Envelope(JList(<<Entry(JList(<<MessagesChange(JList(
         <<TextMessage("15550001", JStr("hello"))>>))>>))>>)))}
Requests ==
    { [raw |-> raw, header |-> SignatureHeader("k", raw)] : raw \in RawBodies }
    \cup { [raw |-> raw, header |-> header] :
             raw \in UnsignedBodies, header \in {None, "sha256=abc", "md5=abc"} }

RequestUnchanged ==
    UNCHANGED <<raw_payload, x_hub_signature_256, wh_body, wh_response>>

\* whatsapp.py:155-206: from the arrival of one of the given requests to the
\* first entry, or to the response that turns the request away
receive_message_of(requests) ==
    /\ wh_pc = "idle"
    /\ \E request \in requests :
         LET raw == request.raw
             header == request.header
             rejected == SignatureRejected(raw, header)
             parsed == ParseBody(raw)
             valid == validate_webhook_payload_structure(parsed.returned)
             response ==
                 IF rejected THEN
                     create_error_response("WEBHOOK_SIGNATURE_INVALID",
                         "Webhook signature verification failed", 401, << >>)
                 ELSE IF "raised" \in DOMAIN parsed THEN
                     IF parsed.type = "WebhookValidationError"
                     THEN webhook_validation_error_handler(parsed.raised)
                     ELSE general_exception_handler(parsed.type, parsed.raised)
                 ELSE IF "raised" \in DOMAIN valid THEN
                     create_error_response("WEBHOOK_PAYLOAD_INVALID",
                         "Invalid webhook payload: " \o valid.raised, 400, << >>)
                 ELSE NoResponse
         IN /\ raw_payload' = raw
            /\ x_hub_signature_256' = header
            /\ wh_response' = response
            /\ wh_body' = IF ~rejected /\ "returned" \in DOMAIN parsed
                          THEN parsed.returned ELSE NoBody
            /\ wh_pc' = IF response = NoResponse THEN "entry" ELSE "responded"
            /\ entry_index' = IF response = NoResponse THEN 1 ELSE 0
    /\ UNCHANGED <<change_index, message_index, extracted_message,
                   processed_entries, processing_errors, generated, handled,
                   users_db>>
    /\ RetryUntouched
    /\ WebhookFrame

\* whatsapp.py:141-206 for the requests of the model
receive_message == receive_message_of(Requests)

\* whatsapp.py:208-215 with 279-290: the next entry is validated; an invalid
\* one is recorded as an error, one without changes counts as processed
process_webhook_entry ==
    /\ wh_pc = "entry"
    /\ entry_index <= Len(wh_body.dict["entry"].list)
    /\ LET valid == validate_webhook_entry(CurEntry) IN
       IF "raised" \in DOMAIN valid THEN
           /\ processing_errors' = Append(processing_errors,
                                          "Entry processing failed: " \o valid.raised)
           /\ entry_index' = entry_index + 1
           /\ UNCHANGED <<wh_pc, change_index, processed_entries>>
       ELSE IF Len(CurChanges) = 0 THEN
           /\ processed_entries' = processed_entries + 1
           /\ entry_index' = entry_index + 1
           /\ UNCHANGED <<wh_pc, change_index, processing_errors>>
       ELSE
           /\ wh_pc' = "change"
           /\ change_index' = 1
           /\ UNCHANGED <<entry_index, processed_entries, processing_errors>>
    /\ UNCHANGED <<message_index, extracted_message, generated, handled,
                   users_db>>
    /\ RequestUnchanged
    /\ RetryUntouched
    /\ WebhookFrame

\* whatsapp.py:302-304 and 211: the loop over the changes is over, the entry
\* counts as processed
process_webhook_entry_return ==
    /\ wh_pc = "change"
    /\ change_index > Len(CurChanges)
    /\ processed_entries' = processed_entries + 1
    /\ entry_index' = entry_index + 1
    /\ change_index' = 0
    /\ wh_pc' = "entry"
    /\ UNCHANGED <<message_index, extracted_message, processing_errors,
                   generated, handled,
                   users_db>>
    /\ RequestUnchanged
    /\ RetryUntouched
    /\ WebhookFrame

\* whatsapp.py:294-300 with 326-343: the next change is validated; the loop
\* at 294 swallows whatever it raises
process_webhook_change ==
    /\ wh_pc = "change"
    /\ change_index <= Len(CurChanges)
    /\ IF \/ "raised" \in DOMAIN validate_webhook_change(CurChange)
          \/ JGet(CurChange, "field", JNull) # JStr("messages")
          \/ HasNoLen(CurMessagesValue)
          \/ ~JTruthy(CurMessagesValue)
       THEN /\ change_index' = change_index + 1
            /\ UNCHANGED <<wh_pc, message_index>>
       ELSE /\ wh_pc' = "message"
            /\ message_index' = 1
            /\ UNCHANGED change_index
    /\ UNCHANGED <<entry_index, extracted_message, processed_entries,
                   processing_errors, generated, handled,
                   users_db>>
    /\ RequestUnchanged
    /\ RetryUntouched
    /\ WebhookFrame

\* whatsapp.py:355-357 and 297: the loop over the messages is over
process_webhook_change_return ==
    /\ wh_pc = "message"
    /\ message_index > Len(CurMessages)
    /\ change_index' = change_index + 1
    /\ message_index' = 0
    /\ wh_pc' = "change"
    /\ UNCHANGED <<entry_index, extracted_message, processed_entries,
                   processing_errors, generated, handled,
                   users_db>>
    /\ RequestUnchanged
    /\ RetryUntouched
    /\ WebhookFrame

\* a loop that a failing message ends
AbortMessages(i, n) == n + 1

\* whatsapp.py:347-353: the except clause logs the failure of message i of
\* n and the loop goes on with the next one
AfterFailedMessage(i, n) == i + 1

\* whatsapp.py:404-407: the f-string of the debug call slices and measures
\* the body whatever the log level, and raises TypeError for a body that is
\* neither a str nor a list
ContentLogRaises(content) ==
    JTruthy(content) /\ ~IsStr(content) /\ ~IsList(content)

\* whatsapp.py:521-524: the lookup of the reply raises TypeError for a type
\* that is a list or an object, and the handler at 433 sends the "general"
\* fallback
Unhashable(type) == IsList(type) \/ IsDict(type)

\* a handler that lets the failure of the registry update propagate
UserServiceErrorRaised == FALSE

\* whatsapp.py:415-419: the except clause logs the failure of the registry
\* update and goes on to the reply
UserServiceErrorSwallowed == TRUE

\* the message with the extraction result e ends at the registry update
RegistryErrorEnds(e) ==
    /\ "returned" \in DOMAIN e
    /\ ~ContentLogRaises(e.returned.content)
    /\ registry_raises
    /\ ~UserServiceErrorSwallowed

\* whatsapp.py:347-353 with 387-438, 454-463, 506-527: the next message up to
\* the first send.  A message that cannot be extracted raises with
\* from_number unset, so nothing is sent (430) and the loop at 347 goes on.
\* A body that cannot be logged raises before the registry update and the
\* handler at 433 sends the "general" fallback.  A failure of the registry
\* update is logged and the reply goes on (410-419).  generate_response
\* raises for a body that is not a str and handle_text_message turns to the
\* fallback (490-493).
process_user_message ==
    /\ wh_pc = "message"
    /\ message_index <= Len(CurMessages)
    /\ handled' = Append(handled, <<entry_index, change_index, message_index>>)
    /\ LET e == extract_message_content(CurMessage) IN
       IF "raised" \in DOMAIN e \/ RegistryErrorEnds(e) THEN
           /\ message_index' = AfterFailedMessage(message_index, Len(CurMessages))
           /\ UNCHANGED <<wh_pc, extracted_message, generated, users_db>>
           /\ RetryUntouched
       ELSE
           LET m == e.returned IN
           /\ extracted_message' = m
           /\ users_db' = IF ContentLogRaises(m.content) \/ registry_raises
                          THEN users_db
                          ELSE UserService_process_user_message(users_db, m.from)
           /\ UNCHANGED <<message_index, sent>>
           /\ IF ContentLogRaises(m.content) THEN
                  /\ generated' = generated
                  /\ CallRetry(m.from, process_error_message("general"),
                               FallbackMaxRetries)
                  /\ wh_pc' = "send_error_fallback"
              ELSE IF JTruthy(m.content) /\ m.type = JStr("text") THEN
                  /\ generated' = Append(generated, [message |-> m.content,
                                                     user_id |-> m.from])
                  /\ IF IsStr(m.content)
                     THEN /\ CallRetry(m.from, generate_response(m.content.str),
                                       DefaultMaxRetries)
                          /\ wh_pc' = "handle_text_message"
                     ELSE /\ CallRetry(m.from, process_error_message("processing"),
                                       FallbackMaxRetries)
                          /\ wh_pc' = "send_error_fallback"
              ELSE IF Unhashable(m.type) THEN
                  /\ generated' = generated
                  /\ CallRetry(m.from, process_error_message("general"),
                               FallbackMaxRetries)
                  /\ wh_pc' = "send_error_fallback"
              ELSE
                  /\ generated' = generated
                  /\ CallRetry(m.from,
                               non_text_responses(IF IsStr(m.type) THEN m.type.str
                                                  ELSE None),
                               DefaultMaxRetries)
                  /\ wh_pc' = "handle_non_text_message"
    /\ UNCHANGED <<entry_index, change_index, processed_entries,
                   processing_errors>>
    /\ RequestUnchanged
    /\ WebhookFrame

\* the message is done with and the loop at 347 goes to the next one
NextMessage ==
    /\ message_index' = message_index + 1
    /\ extracted_message' = NoMessage
    /\ wh_pc' = "message"
    /\ RetryPopped

\* whatsapp.py:463-475: the reply to a text message was sent or given up
handle_text_message_return ==
    /\ wh_pc = "handle_text_message"
    /\ rs_pc = "returned"
    /\ IF rs_ret.success
       THEN NextMessage
       ELSE /\ CallRetry(extracted_message.from, process_error_message("network"),
                         FallbackMaxRetries)
            /\ wh_pc' = "send_error_fallback"
            /\ UNCHANGED <<message_index, extracted_message, sent>>
    /\ UNCHANGED <<entry_index, change_index, processed_entries,
                   processing_errors, generated, handled,
                   users_db>>
    /\ RequestUnchanged
    /\ WebhookFrame

\* a handler that does not await the reply to a message that is not text
handle_non_text_message_unawaited ==
    /\ wh_pc = "handle_non_text_message"
    /\ NextMessage
    /\ UNCHANGED <<entry_index, change_index, processed_entries,
                   processing_errors, generated, handled, users_db>>
    /\ RequestUnchanged
    /\ WebhookFrame

\* whatsapp.py:527-534: the reply to any other message was sent or given up
handle_non_text_message_return ==
    /\ wh_pc = "handle_non_text_message"
    /\ rs_pc = "returned"
    /\ NextMessage
    /\ UNCHANGED <<entry_index, change_index, processed_entries,
                   processing_errors, generated, handled,
                   users_db>>
    /\ RequestUnchanged
    /\ WebhookFrame

\* whatsapp.py:550-557: the fallback was sent or given up
send_error_fallback_return ==
    /\ wh_pc = "send_error_fallback"
    /\ rs_pc = "returned"
    /\ NextMessage
    /\ UNCHANGED <<entry_index, change_index, processed_entries,
                   processing_errors, generated, handled,
                   users_db>>
    /\ RequestUnchanged
    /\ WebhookFrame

\* a handler that reports failure as soon as one entry failed
AnyEntryFailed(errors, processed) == errors # << >>

\* whatsapp.py:222
AllEntriesFailed(errors, processed) == errors # << >> /\ processed = 0

\* whatsapp.py:217-236: the loop over the entries is over
receive_message_return ==
    /\ wh_pc = "entry"
    /\ entry_index > Len(wh_body.dict["entry"].list)
    /\ wh_response' =
           IF AllEntriesFailed(processing_errors, processed_entries)
           THEN create_error_response("WEBHOOK_PROCESSING_FAILED",
                                      "All webhook entries failed to process",
                                      500, [errors |-> processing_errors])
           ELSE Received(processed_entries, processing_errors)
    /\ wh_pc' = "responded"
    /\ UNCHANGED <<raw_payload, x_hub_signature_256, wh_body, entry_index,
                   change_index, message_index, extracted_message,
                   processed_entries, processing_errors, generated, handled,
                   users_db>>
    /\ RetryUntouched
    /\ WebhookFrame

-----------------------------------------------------------------------------
(* Webhook verification: verify_webhook, whatsapp.py:47-137 *)

\* whatsapp.py:40
VERIFY_TOKEN == Config.WHATSAPP_VERIFY_TOKEN

DigitValue(c) == CHOOSE n \in 0 .. 9 : CharAt("0123456789", n + 1) = c

\* the number a run of digits and underscores writes
RECURSIVE DigitsValue(_, _)
DigitsValue(s, acc) ==
    IF s = "" THEN acc
    ELSE IF CharAt(s, 1) = "_" THEN DigitsValue(SubSeq(s, 2, Len(s)), acc)
    ELSE DigitsValue(SubSeq(s, 2, Len(s)), 10 * acc + DigitValue(CharAt(s, 1)))

\* digits, with single underscores between them
IsIntDigits(s) ==
    /\ Len(s) > 0
    /\ \A i \in 1 .. Len(s) : CharAt(s, i) \in Digits \cup {"_"}
    /\ CharAt(s, 1) # "_"
    /\ CharAt(s, Len(s)) # "_"
    /\ \A i \in 1 .. Len(s) - 1 : ~(CharAt(s, i) = "_" /\ CharAt(s, i + 1) = "_")

\* int(s) for a str: blanks around, one sign, digits; ValueError otherwise
int(s) ==
    LET t == Strip(s)
        signed == t # "" /\ CharAt(t, 1) \in {"+", "-"}
        digits == IF signed THEN SubSeq(t, 2, Len(t)) ELSE t
    IN IF ~IsIntDigits(digits) THEN Raised("ValueError")
       ELSE IF signed /\ CharAt(t, 1) = "-"
            THEN Returned(0 - DigitsValue(digits, 0))
            ELSE Returned(DigitsValue(digits, 0))

\* whatsapp.py:70-80
WebhookInfo ==
    [status_code |-> 200,
     content |-> [message |-> "WhatsApp webhook endpoint. Use POST for messages or GET with verification parameters.",
                  status |-> "ready",
                  configuration |-> [verify_token_configured |-> Truthy(VERIFY_TOKEN),
                                     webhook_secret_configured |-> Truthy(VERIFY_TOKEN)]]]

\* whatsapp.py:110: FastAPI serializes the int the handler returns
ChallengeResponse(n) == [status_code |-> 200, challenge |-> n]

\* an endpoint that does not look at hub.mode
verify_any_mode(hub_mode, hub_challenge, hub_verify_token) ==
    IF ~Truthy(hub_mode) /\ ~Truthy(hub_challenge) /\ ~Truthy(hub_verify_token)
    THEN WebhookInfo
    ELSE IF ~Truthy(hub_mode) \/ ~Truthy(hub_challenge) \/ ~Truthy(hub_verify_token)
    THEN create_error_response("WEBHOOK_VERIFICATION_INCOMPLETE",
             "Missing required verification parameters", 400, << >>)
    ELSE IF ~Truthy(VERIFY_TOKEN) THEN
        create_error_response("WEBHOOK_VERIFICATION_NOT_CONFIGURED",
             "Webhook verification not configured", 500, << >>)
    ELSE IF hub_verify_token = VERIFY_TOKEN THEN
        IF "raised" \in DOMAIN int(hub_challenge)
        THEN create_error_response("WEBHOOK_VERIFICATION_INVALID_CHALLENGE",
                 "Invalid challenge format", 400, << >>)
        ELSE ChallengeResponse(int(hub_challenge).returned)
    ELSE create_error_response("WEBHOOK_VERIFICATION_FAILED",
             "Invalid verify token or mode", 403, << >>)

\* whatsapp.py:47-137: the response to hub.mode, hub.challenge and
\* hub.verify_token, each None when the query does not carry it
verify_webhook(hub_mode, hub_challenge, hub_verify_token) ==
    IF ~Truthy(hub_mode) /\ ~Truthy(hub_challenge) /\ ~Truthy(hub_verify_token)
    THEN WebhookInfo
    ELSE IF ~Truthy(hub_mode) \/ ~Truthy(hub_challenge) \/ ~Truthy(hub_verify_token)
    THEN create_error_response("WEBHOOK_VERIFICATION_INCOMPLETE",
             "Missing required verification parameters", 400, << >>)
    ELSE IF ~Truthy(VERIFY_TOKEN) THEN
        create_error_response("WEBHOOK_VERIFICATION_NOT_CONFIGURED",
             "Webhook verification not configured", 500, << >>)
    ELSE IF hub_mode = "subscribe" /\ hub_verify_token = VERIFY_TOKEN THEN
        IF "raised" \in DOMAIN int(hub_challenge)
        THEN create_error_response("WEBHOOK_VERIFICATION_INVALID_CHALLENGE",
                 "Invalid challenge format", 400, << >>)
        ELSE ChallengeResponse(int(hub_challenge).returned)
    ELSE create_error_response("WEBHOOK_VERIFICATION_FAILED",
             "Invalid verify token or mode", 403, << >>)

NoQuery == [hub_mode |-> None, hub_challenge |-> None, hub_verify_token |-> None]

VerifyIdle ==
    /\ vw_query = NoQuery
    /\ vw_response = NoResponse

-----------------------------------------------------------------------------
(* Specification of the retrying sender on its own: a caller invokes       *)
(* send_message_with_retry with arbitrary arguments, again and again.      *)

Recipients == {"", "  ", "+15550001", " +15550001 "}
Texts == {"", " \n", "hello", " hello ", Repeat("x", MaxMessageLength),
          Repeat("x", MaxMessageLength) \o " ",
          Repeat("x", MaxMessageLength + 1)}

RetryIdle ==
    /\ rs_pc = "idle"
    /\ rs_args = NoArgs
    /\ attempt = 0
    /\ send_result = NoResult
    /\ rs_ret = NoResult

SignatureIdle ==
    /\ sig_signed = NoArgs
    /\ sig_header = None
    /\ sig_args = NoArgs
    /\ sig_result = NotCalled

InitRetry ==
    /\ Config \in SendConfigValues
    /\ sent = << >>
    /\ RetryIdle
    /\ users_db = << >>
    /\ BroadcastIdle
    /\ SignatureIdle
    /\ PhoneIdle
    /\ WebhookIdle
    /\ VerifyIdle
    /\ SendIdle
    /\ CallsIdle
    /\ NoFaults

InvokeRetry ==
    /\ rs_pc \in {"idle", "returned"}
    /\ \E to \in Recipients, text \in Texts, m \in -1 .. MaxRetriesBound :
         CallRetry(to, text, m)
    /\ sent' = << >>
    /\ RetryFrame

NextRetry == InvokeRetry \/ SendAttempt

SpecRetry == InitRetry /\ [][NextRetry]_vars

\* The loop body runs to completion once the function is called: nothing in
\* it waits for another task.
SpecRetryFair == SpecRetry /\ WF_vars(SendAttempt)

\* the attempt count a returned dict reports ("attempt" on success,
\* "attempts" on failure)
ReportedAttempts(ret) ==
    IF "attempt" \in DOMAIN ret THEN ret.attempt ELSE ret.attempts

C1_CallsWithinBudget ==
    (rs_pc # "idle" /\ rs_args.max_retries >= 0) =>
        /\ Len(sent) <= rs_args.max_retries + 1
        /\ rs_pc = "loop" => Len(sent) = attempt
        /\ rs_pc = "returned" =>
              /\ Len(sent) >= 1
              /\ ReportedAttempts(rs_ret) = Len(sent)

\* C1: for every recipient, text and max_retries >= 0 and every sequence of
\* delivery outcomes, send_message_with_retry makes at least 1 and at most
\* max_retries + 1 calls to send_message and then returns; the attempt count
\* in the returned dict is the number of calls made.
C1_RetryTerminatesWithinBudget ==
    /\ []C1_CallsWithinBudget
    /\ (rs_pc = "loop") ~> (rs_pc = "returned")

\* a call that used its whole budget of 3 attempts and failed
C1_Witness ==
    /\ rs_pc = "returned"
    /\ rs_args.max_retries = 2
    /\ Len(sent) = 3
    /\ rs_ret.success = FALSE
    /\ rs_ret.attempts = 3

-----------------------------------------------------------------------------
(* Specification of the registry and the broadcast: users write in (the    *)
(* dispatcher calls UserService.process_user_message), an operator         *)
(* deactivates and reactivates them, and an admin broadcasts alerts.  The  *)
(* broadcast handler has no suspension point, so nothing else runs while   *)
(* it is between its call and its return.                                  *)

RegistryPhones == {"+15550001", "15550002", "+15550003"}

UserMessage ==
    /\ bc_pc = "idle"
    /\ \E phone \in RegistryPhones :
         /\ MessageCount(users_db, phone) < MaxMessageCount
         /\ users_db' = UserService_process_user_message(users_db, phone)
    /\ RegistryFrame

Deactivate ==
    /\ bc_pc = "idle"
    /\ \E phone \in RegistryPhones :
         /\ get_user_by_phone(users_db, phone) # NoUser
         /\ get_user_by_phone(users_db, phone).is_active
         /\ users_db' = deactivate_user(users_db, phone)
    /\ RegistryFrame

Reactivate ==
    /\ bc_pc = "idle"
    /\ \E phone \in RegistryPhones :
         /\ get_user_by_phone(users_db, phone) # NoUser
         /\ ~get_user_by_phone(users_db, phone).is_active
         /\ users_db' = reactivate_user(users_db, phone)
    /\ RegistryFrame

InitBroadcast ==
    /\ Config \in SendConfigValues
    /\ sent = << >>
    /\ RetryIdle
    /\ users_db = << >>
    /\ BroadcastIdle
    /\ SignatureIdle
    /\ PhoneIdle
    /\ WebhookIdle
    /\ VerifyIdle
    /\ SendIdle
    /\ CallsIdle
    /\ NoFaults

NextBroadcast ==
    \/ UserMessage
    \/ Deactivate
    \/ Reactivate
    \/ broadcast_alert
    \/ SendAlert
    \/ BroadcastReturn

SpecBroadcast == InitBroadcast /\ [][NextBroadcast]_vars

CountFailed(results) == Len(SelectSeq(results, LAMBDA r : ~r.success))

\* C2: every completed broadcast_alert call returns a summary with
\* successful_deliveries + failed_deliveries = users_targeted, where
\* users_targeted is the number of active users of the registry and every
\* targeted user has exactly one outcome, counted on the side it fell; with
\* no active user the call returns success with three zero counts.
C2_BroadcastCounts ==
    bc_pc = "returned" =>
        /\ alert_response.success
        /\ alert_response.successful_deliveries
             + alert_response.failed_deliveries = alert_response.users_targeted
        /\ alert_response.users_targeted
             = Len(SelectSeq(users_db, LAMBDA u : u.is_active))
        /\ Len(broadcast_results) = alert_response.users_targeted
        /\ \A i \in 1 .. Len(broadcast_results) :
              broadcast_results[i].phone_number = active_users[i].phone_number
        /\ \A i, j \in 1 .. Len(active_users) :
              active_users[i].phone_number = active_users[j].phone_number
                  => i = j
        /\ alert_response.successful_deliveries
             = CountSuccessful(broadcast_results)
        /\ alert_response.failed_deliveries = CountFailed(broadcast_results)
        /\ alert_response.users_targeted = 0 =>
              /\ alert_response.successful_deliveries = 0
              /\ alert_response.failed_deliveries = 0

\* a broadcast to three users of which two were reached and one was not
C2_Witness ==
    /\ bc_pc = "returned"
    /\ alert_response.users_targeted = 3
    /\ alert_response.successful_deliveries = 2
    /\ alert_response.failed_deliveries = 1

\* a broadcast with users registered but none active
C2_WitnessNoUsers ==
    /\ bc_pc = "returned"
    /\ Len(users_db) > 0
    /\ alert_response.users_targeted = 0

-----------------------------------------------------------------------------
(* Specification of the signature verifier: the provider signs a body      *)
(* under a secret, or a header of another shape arrives, and               *)
(* verify_webhook_signature is called with a body and a secret.            *)

Secrets == {"k", "k" \o NUL, "j", Repeat("k", Sha256BlockSize + 1)}
Bodies == {"", "{}", "0123456789", "0123456780"}
OtherHeaders == {None, "", "md5=abc", "SHA256=abc", "sha256=", "sha256=abc"}

InitSig ==
    /\ Config \in SignatureConfigValues
    /\ sent = << >>
    /\ RetryIdle
    /\ users_db = << >>
    /\ BroadcastIdle
    /\ PhoneIdle
    /\ WebhookIdle
    /\ VerifyIdle
    /\ SendIdle
    /\ CallsIdle
    /\ NoFaults
    /\ sig_args = NoArgs
    /\ sig_result = NotCalled
    /\ \/ /\ sig_signed \in [secret : Secrets, body : Bodies]
          /\ sig_header = SignatureHeader(sig_signed.secret, sig_signed.body)
       \/ /\ sig_signed = NoArgs
          /\ sig_header \in OtherHeaders

\* receive_message passes "" for a missing header (whatsapp.py:163)
Verify ==
    /\ \E payload \in Bodies, secret \in Secrets \cup {None, ""} :
         /\ sig_args' = [payload |-> payload, secret |-> secret]
         /\ sig_result' =
              verify_webhook_signature(
                  payload, IF Truthy(sig_header) THEN sig_header ELSE "",
                  secret)
    /\ UNCHANGED <<sig_signed, sig_header>>
    /\ SignatureFrame

NextSig == Verify

SpecSig == InitSig /\ [][NextSig]_vars

\* the header was computed from a secret and a body, and the verifier was
\* called with a non-empty secret
SignedAndChecked ==
    /\ sig_signed # NoArgs
    /\ sig_result # NotCalled
    /\ Truthy(sig_args.secret)

SameInputs ==
    sig_args.payload = sig_signed.body /\ sig_args.secret = sig_signed.secret

-----------------------------------------------------------------------------
(* Specification of the phone canonicalization: sanitize_phone_number is   *)
(* called on an input and then once more on the value it returned.         *)

DigitRun(n) == SubSeq(Repeat("1234567890", n), 1, n)

\* leading blanks, "+" signs, a run of digits with one more character put
\* in the middle or at the end of it, trailing blanks
PhoneInputs ==
    {None} \cup
    UNION { { lead \o plus \o DigitRun(k) \o c \o DigitRun(n - k) \o trail :
                lead \in {"", " "}, plus \in {"", "+", "++"}, k \in 0 .. n,
                c \in {"", "a", "+", " ", "-"}, trail \in {"", " \n"} } :
            n \in 0 .. MaxDigits }

InitPhone ==
    /\ Config \in {c \in SignatureConfigValues :
                      c.WHATSAPP_VERIFY_TOKEN = "k"
                      /\ c.ENVIRONMENT = "production"}
    /\ sent = << >>
    /\ RetryIdle
    /\ users_db = << >>
    /\ BroadcastIdle
    /\ SignatureIdle
    /\ WebhookIdle
    /\ VerifyIdle
    /\ SendIdle
    /\ CallsIdle
    /\ NoFaults
    /\ ph_input \in PhoneInputs
    /\ ph_result = NotCalled
    /\ ph_again = NotCalled

Sanitize ==
    /\ ph_result = NotCalled
    /\ ph_result' = sanitize_phone_number(ph_input)
    /\ UNCHANGED <<ph_input, ph_again>>
    /\ PhoneFrame

SanitizeAgain ==
    /\ "returned" \in DOMAIN ph_result
    /\ ph_again = NotCalled
    /\ ph_again' = sanitize_phone_number(ph_result.returned)
    /\ UNCHANGED <<ph_input, ph_result>>
    /\ PhoneFrame

NextPhone == Sanitize \/ SanitizeAgain

SpecPhone == InitPhone /\ [][NextPhone]_vars

\* C6: phone canonicalization is idempotent: for every input that
\* sanitize_phone_number accepts, sanitizing the value it returned is
\* accepted too and returns that same value.
C6_SanitizeIdempotent ==
    ph_again # NotCalled => ph_again = ph_result

\* an input that is not canonical itself, sanitized twice
C6_Witness ==
    /\ ph_input = " 1234567 \n"
    /\ ph_result = Returned("+1234567")
    /\ ph_again = Returned("+1234567")

\* "+" followed by 7 to 15 digits and nothing else
IsCanonicalPhone(v) ==
    /\ StartsWith(v, "+")
    /\ IsDigit(SubSeq(v, 2, Len(v)))
    /\ Len(v) - 1 >= MinPhoneDigits
    /\ Len(v) - 1 <= MaxPhoneDigits

\* after trimming: digits only, apart from a single leading "+"
DigitsAfterOneLeadingPlus(v) ==
    IF StartsWith(v, "+") THEN IsDigit(SubSeq(v, 2, Len(v))) ELSE IsDigit(v)

\* C7: sanitize_phone_number rejects every input that, after trimming, has
\* a character other than digits apart from a single leading "+", and every
\* value it returns is "+" followed by 7 to 15 digits and nothing else.
C7_OnlyCanonicalPhones ==
    (ph_result # NotCalled /\ ph_input # None) =>
        /\ ~DigitsAfterOneLeadingPlus(Strip(ph_input))
              => "raised" \in DOMAIN ph_result
        /\ "returned" \in DOMAIN ph_result
              => IsCanonicalPhone(ph_result.returned)

-----------------------------------------------------------------------------
(* Specification of the webhook POST: one request arrives and is handled   *)
(* to its response, with every outcome of every delivery attempt.          *)

InitWebhook ==
    /\ Config \in SignatureConfigValues
    /\ sent = << >>
    /\ RetryIdle
    /\ users_db = << >>
    /\ BroadcastIdle
    /\ SignatureIdle
    /\ PhoneIdle
    /\ WebhookIdle
    /\ VerifyIdle
    /\ SendIdle
    /\ CallsIdle
    /\ NoFaults

NextWebhook ==
    \/ receive_message
    \/ process_webhook_entry
    \/ process_webhook_entry_return
    \/ process_webhook_change
    \/ process_webhook_change_return
    \/ process_user_message
    \/ SendAttempt
    \/ handle_text_message_return
    \/ handle_non_text_message_return
    \/ send_error_fallback_return
    \/ receive_message_return

SpecWebhook == InitWebhook /\ [][NextWebhook]_vars

Responded == wh_pc = "responded"

\* the entries of the envelope, once envelope validation has passed
EnvelopeEntries == wh_body.dict["entry"].list
FailedEntries ==
    { i \in 1 .. Len(EnvelopeEntries) :
        "raised" \in DOMAIN validate_webhook_entry(EnvelopeEntries[i]) }
ReportedErrors ==
    IF "content" \in DOMAIN wh_response
    THEN IF "errors" \in DOMAIN wh_response.content
         THEN wh_response.content.errors ELSE << >>
    ELSE wh_response.error.details.errors

\* C4: once envelope validation has passed, the POST answers with an error
\* status (500) only when every entry failed; whenever at least one entry was
\* processed it answers 200 with processed_entries equal to the number of
\* entries that did not fail and one error string per failed entry.
C4_ErrorOnlyWhenAllEntriesFailed ==
    (Responded /\ entry_index > 0) =>
        /\ wh_response.status_code # 200 =>
               /\ wh_response.status_code = 500
               /\ Cardinality(FailedEntries) = Len(EnvelopeEntries)
        /\ Cardinality(FailedEntries) < Len(EnvelopeEntries) =>
               /\ wh_response.status_code = 200
               /\ wh_response.content.processed_entries
                      = Len(EnvelopeEntries) - Cardinality(FailedEntries)
               /\ Len(ReportedErrors) = Cardinality(FailedEntries)

\* two entries, the first valid and the second structurally invalid
C4_Witness ==
    /\ Responded
    /\ entry_index > 0
    /\ Len(EnvelopeEntries) = 2
    /\ FailedEntries = {2}
    /\ Len(sent) > 0
    /\ wh_response = Received(1, <<"Entry processing failed: Missing required field 'changes' in webhook entry">>)

\* every entry of the envelope failed
C4_WitnessAllFailed ==
    /\ Responded
    /\ entry_index > 0
    /\ Len(EnvelopeEntries) = 2
    /\ wh_response.status_code = 500

\* the request got past the signature check: the verifier returned True
SignaturePassed ==
    verify_webhook_signature(raw_payload,
                             IF Truthy(x_hub_signature_256)
                             THEN x_hub_signature_256 ELSE "", None)
        = Returned(TRUE)

\* line 182 parsed the body
BodyParsed == wh_body # NoBody

\* the message of the first check of the envelope that fails, "" if none
FirstFailedCheck(payload) ==
    IF ~IsDict(payload) THEN "Payload must be a JSON object"
    ELSE IF "object" \notin DOMAIN payload.dict THEN
        "Missing 'object' field in webhook payload"
    ELSE IF payload.dict["object"] # JStr("whatsapp_business_account") THEN
        "Invalid object type: " \o PyStr(payload.dict["object"])
    ELSE IF "entry" \notin DOMAIN payload.dict THEN
        "Missing 'entry' field in webhook payload"
    ELSE IF ~IsList(payload.dict["entry"]) THEN "'entry' field must be an array"
    ELSE IF payload.dict["entry"].list = << >> THEN "'entry' array cannot be empty"
    ELSE ""

\* an envelope with one correctly shaped entry whose one change has a field
\* tag other than 'messages'
OneUnrelatedChange(payload) ==
    /\ FirstFailedCheck(payload) = ""
    /\ Len(payload.dict["entry"].list) = 1
    /\ LET entry == payload.dict["entry"].list[1] IN
       /\ IsDict(entry)
       /\ {"id", "changes"} \subseteq DOMAIN entry.dict
       /\ IsList(entry.dict["changes"])
       /\ Len(entry.dict["changes"].list) = 1
       /\ LET change == entry.dict["changes"].list[1] IN
          /\ IsDict(change)
          /\ {"field", "value"} \subseteq DOMAIN change.dict
          /\ change.dict["field"] # JStr("messages")

\* C5: validate_webhook_payload_structure fails with a validation error for
\* every payload that lacks 'entry' or whose 'entry' is empty, and for one
\* that is not a mapping or has an unrecognized object type, reporting the
\* first failed check; a payload with one correctly shaped entry holding one
\* change whose field tag is not 'messages' passes validation at all three
\* levels and the change is skipped without an error, a send or a registry
\* update.
C5_EnvelopeValidation ==
    (wh_pc # "idle" /\ SignaturePassed /\ BodyParsed) =>
        LET payload == wh_body IN
        /\ (Responded /\ FirstFailedCheck(payload) # "") =>
               wh_response = create_error_response("WEBHOOK_PAYLOAD_INVALID",
                   "Invalid webhook payload: " \o FirstFailedCheck(payload),
                   400, << >>)
        /\ OneUnrelatedChange(payload) =>
               /\ sent = << >>
               /\ users_db = << >>
               /\ generated = << >>
               /\ processing_errors = << >>
               /\ Responded => wh_response = Received(1, << >>)

\* a change of statuses, skipped
C5_Witness ==
    /\ Responded
    /\ wh_body = Envelope(JList(<<Entry(JList(<<StatusesChange>>))>>))
    /\ wh_response = Received(1, << >>)
    /\ sent = << >>

\* an envelope with an empty 'entry' array, turned away
C5_WitnessEmptyEntry ==
    /\ Responded
    /\ wh_body = Envelope(JList(<< >>))
    /\ wh_response.status_code = 400
    /\ wh_response.error.message = "Invalid webhook payload: 'entry' array cannot be empty"

\* a text message with an empty body is in the hands of the dispatcher
EmptyTextInHand ==
    /\ wh_pc \in {"handle_text_message", "handle_non_text_message",
                  "send_error_fallback"}
    /\ IsDict(CurMessage)
    /\ JGet(CurMessage, "type", JNull) = JStr("text")
    /\ JGet(CurMessage, "text", JNull) = JDict([body |-> JStr("")])

\* C8: for an inbound message of type 'text' with an empty text body,
\* extraction succeeds with text "" and the dispatcher still invokes the
\* response generator with the empty string and sends the generator's reply.
C8_EmptyTextGetsGeneratedReply ==
    EmptyTextInHand =>
        /\ extracted_message.content = JStr("")
        /\ \E i \in 1 .. Len(generated) :
               generated[i] = [message |-> JStr(""),
                               user_id |-> extracted_message.from]
        /\ \E i \in 1 .. Len(sent) : sent[i].message = generate_response("")

\* the signature check fails: the verifier returns False (mismatch, missing
\* header) or raises (badly formatted header)
VerificationFails ==
    LET r == verify_webhook_signature(raw_payload,
                                      IF Truthy(x_hub_signature_256)
                                      THEN x_hub_signature_256 ELSE "", None)
    IN r = Returned(FALSE) \/ "raised" \in DOMAIN r

\* the POST as first stated: a signature failure is answered with 400
C9_Original ==
    (Responded /\ VerificationFails) => wh_response.status_code = 400

\* C9: a webhook POST whose signature verification fails (signature
\* mismatch, missing header or badly formatted header) is answered with HTTP
\* 401 and the code WEBHOOK_SIGNATURE_INVALID, which is not the status of a
\* structural failure (400).
C9_SignatureFailureIs401 ==
    (Responded /\ VerificationFails) =>
        wh_response = create_error_response("WEBHOOK_SIGNATURE_INVALID",
            "Webhook signature verification failed", 401, << >>)

\* a badly formatted header on a well-formed body
C9_Witness ==
    /\ Responded
    /\ x_hub_signature_256 = "md5=abc"
    /\ raw_payload = Dumps(Envelope(JList(<<JStr("1055")>>)))
    /\ wh_response.status_code = 401

\* a body that is empty, not UTF-8 JSON, or fails envelope validation
MalformedBody ==
    \/ ~BodyParsed
    \/ FirstFailedCheck(wh_body) # ""

\* C10: every webhook POST with a malformed body, once the signature check
\* has passed, is answered with HTTP 400 and a structured JSON error carrying
\* a stable error code; it never produces a 500.
C10_MalformedBodyIs400 ==
    (Responded /\ SignaturePassed /\ MalformedBody) =>
        /\ wh_response.status_code = 400
        /\ wh_response.error.code \in {"WEBHOOK_VALIDATION_ERROR",
                                       "WEBHOOK_PAYLOAD_INVALID",
                                       "WEBHOOK_INVALID_JSON"}

-----------------------------------------------------------------------------
(* Specification of the webhook verification: one GET arrives.             *)

Modes == {None, "", "subscribe", "unsubscribe"}
Challenges ==
    {None, "", "12345", "007", " 42 \n", "+5", "-3", "1_000", "1__0", "_1",
     "abc", "12a", "4.5", "+"}
VerifyTokens == {None, "", "k", "wrong"}

InitVerify ==
    /\ Config \in SignatureConfigValues
    /\ sent = << >>
    /\ RetryIdle
    /\ users_db = << >>
    /\ BroadcastIdle
    /\ SignatureIdle
    /\ PhoneIdle
    /\ WebhookIdle
    /\ VerifyIdle
    /\ SendIdle
    /\ CallsIdle
    /\ NoFaults

VerifyGet ==
    /\ vw_response = NoResponse
    /\ \E m \in Modes, c \in Challenges, t \in VerifyTokens :
         /\ vw_query' = [hub_mode |-> m, hub_challenge |-> c,
                         hub_verify_token |-> t]
         /\ vw_response' = verify_webhook(m, c, t)
    /\ VerifyFrame

NextVerify == VerifyGet

SpecVerify == InitVerify /\ [][NextVerify]_vars

VerifyAnswered == vw_response # NoResponse

\* the request asks for a subscription with the configured token
RightModeAndToken ==
    /\ vw_query.hub_mode = "subscribe"
    /\ Truthy(vw_query.hub_verify_token)
    /\ vw_query.hub_verify_token = Config.WHATSAPP_VERIFY_TOKEN

\* the challenge reads as an integer
IntegerChallenge ==
    /\ Truthy(vw_query.hub_challenge)
    /\ "returned" \in DOMAIN int(vw_query.hub_challenge)

\* a structured error of one of the given statuses with a code
StructuredError(response, statuses) ==
    /\ response.status_code \in statuses
    /\ "error" \in DOMAIN response
    /\ response.error.code # ""

NoParameters ==
    /\ ~Truthy(vw_query.hub_mode)
    /\ ~Truthy(vw_query.hub_challenge)
    /\ ~Truthy(vw_query.hub_verify_token)
SomeParameterMissing ==
    \/ ~Truthy(vw_query.hub_mode)
    \/ ~Truthy(vw_query.hub_challenge)
    \/ ~Truthy(vw_query.hub_verify_token)

\* the endpoint as first stated: every request that is not a successful
\* verification gets a structured error of status 400, 403 or 500
C11_Original ==
    VerifyAnswered =>
        /\ "challenge" \in DOMAIN vw_response =>
               RightModeAndToken /\ IntegerChallenge
        /\ ~(RightModeAndToken /\ IntegerChallenge) =>
               StructuredError(vw_response, {400, 403, 500})

\* C11: the GET verification endpoint returns the challenge value (as an
\* integer) only when mode is 'subscribe', verify_token equals the configured
\* token and the challenge is integer-compatible; a request with none of the
\* three parameters gets the 200 information response; every other request
\* gets a structured error with a code: 400 when a parameter is missing, else
\* 500 when no token is configured, else 403 on wrong token or mode, else
\* 400 when the challenge is not an integer.
C11_VerificationEndpoint ==
    VerifyAnswered =>
        /\ "challenge" \in DOMAIN vw_response =>
               /\ RightModeAndToken
               /\ IntegerChallenge
               /\ vw_response.challenge = int(vw_query.hub_challenge).returned
        /\ NoParameters => vw_response = WebhookInfo
        /\ (~NoParameters /\ ~(RightModeAndToken /\ IntegerChallenge)) =>
               /\ StructuredError(vw_response, {400, 403, 500})
               /\ vw_response.status_code =
                      IF SomeParameterMissing THEN 400
                      ELSE IF ~Truthy(Config.WHATSAPP_VERIFY_TOKEN) THEN 500
                      ELSE IF ~RightModeAndToken THEN 403
                      ELSE 400

\* a successful verification
C11_Witness ==
    /\ vw_query = [hub_mode |-> "subscribe", hub_challenge |-> "12345",
                   hub_verify_token |-> "k"]
    /\ vw_response = ChallengeResponse(12345)

\* the right challenge and token under another mode
C11_WitnessWrongMode ==
    /\ vw_query = [hub_mode |-> "unsubscribe", hub_challenge |-> "12345",
                   hub_verify_token |-> "k"]
    /\ vw_response.status_code = 403

-----------------------------------------------------------------------------
(* Further properties of the broadcast, under SpecBroadcast.               *)

FailedResults == SelectSeq(broadcast_results, LAMBDA r : ~r.success)

\* C12: the errors list of a broadcast summary holds exactly one string
\* "<recipient>: <message>" per failed recipient, in the order of the
\* attempts, so its length equals failed_deliveries; when no recipient
\* failed the errors field is absent (null), not an empty list.
C12_OneErrorPerFailure ==
    bc_pc = "returned" =>
        IF alert_response.failed_deliveries = 0
        THEN "errors" \notin DOMAIN alert_response
        ELSE /\ "errors" \in DOMAIN alert_response
             /\ Len(alert_response.errors) = alert_response.failed_deliveries
             /\ Len(alert_response.errors) = Len(FailedResults)
             /\ \A i \in 1 .. Len(FailedResults) :
                  alert_response.errors[i] =
                      FailedResults[i].phone_number \o ": "
                          \o FailedResults[i].error_message

\* a broadcast to three users of which the first and the last failed
C12_Witness ==
    /\ bc_pc = "returned"
    /\ alert_response.users_targeted = 3
    /\ alert_response.failed_deliveries = 2
    /\ ~broadcast_results[1].success
    /\ broadcast_results[2].success
    /\ Len(alert_response.errors) = 2

\* a broadcast that reached each of its two users
C12_WitnessNoFailure ==
    /\ bc_pc = "returned"
    /\ alert_response.users_targeted = 2
    /\ alert_response.failed_deliveries = 0
    /\ "errors" \notin DOMAIN alert_response

RateLimitMessage == "WhatsApp API rate limit exceeded"

SentTo(phone) == Len(SelectSeq(sent, LAMBDA e : e.to = phone))

\* the broadcast as first stated: a recipient the provider rate limits is
\* attempted again before it is counted as failed
C13_Original ==
    bc_pc = "returned" =>
        \A i \in 1 .. Len(broadcast_results) :
            broadcast_results[i].error_message = RateLimitMessage =>
                SentTo(broadcast_results[i].phone_number) > 1

\* C13: in a broadcast every recipient is attempted exactly once, in the
\* order of the recipients; a recipient whose attempt returns rate_limited is
\* counted as failed after that one attempt, with its error string in the
\* summary.  (Three active recipients of which two succeed and the third is
\* rate limited give targeted 3, succeeded 2, failed 1 and one error string
\* for the third.)
C13_OneAttemptPerRecipient ==
    bc_pc \in {"sending", "returned"} =>
        /\ Len(sent) = Len(broadcast_results)
        /\ \A i \in 1 .. Len(sent) :
              /\ sent[i].to = active_users[i].phone_number
              /\ sent[i].to = broadcast_results[i].phone_number
              /\ SentTo(sent[i].to) = 1
        /\ \A i \in 1 .. Len(broadcast_results) :
              broadcast_results[i].error_message = RateLimitMessage =>
                  /\ ~broadcast_results[i].success
                  /\ bc_pc = "returned" =>
                        \E j \in 1 .. Len(alert_response.errors) :
                            alert_response.errors[j] =
                                broadcast_results[i].phone_number \o ": "
                                    \o RateLimitMessage

\* three recipients, two reached and the third rate limited
C13_Witness ==
    /\ bc_pc = "returned"
    /\ Len(sent) = 3
    /\ broadcast_results[1].success
    /\ broadcast_results[2].success
    /\ broadcast_results[3].error_message = RateLimitMessage
    /\ alert_response.users_targeted = 3
    /\ alert_response.successful_deliveries = 2
    /\ alert_response.failed_deliveries = 1
    /\ alert_response.errors
         = <<broadcast_results[3].phone_number \o ": " \o RateLimitMessage>>

ActiveNow == SelectSeq(users_db, LAMBDA u : u.is_active)

\* while a broadcast runs, its recipients are the users active when it
\* started, each sent to once and in their order, and no inactive user is
\* sent to or counted
BroadcastToActiveUsers ==
    bc_pc \in {"sending", "returned"} =>
        /\ active_users = ActiveNow
        /\ \A i \in 1 .. Len(sent) :
              /\ sent[i].to = active_users[i].phone_number
              /\ SentTo(sent[i].to) = 1
        /\ \A i \in 1 .. Len(users_db) :
              ~users_db[i].is_active => SentTo(users_db[i].phone_number) = 0
        /\ bc_pc = "returned" =>
              /\ alert_response.users_targeted = Len(ActiveNow)
              /\ Len(sent) = Len(ActiveNow)
              /\ \A i \in 1 .. Len(users_db) :
                    users_db[i].is_active
                        => SentTo(users_db[i].phone_number) = 1

\* is_active of the user of phone in a registry
IsActive(db, phone) == get_user_by_phone(db, phone).is_active

\* whatever the registry holds between two broadcasts (a broadcast does not
\* write to it), deactivate_user(u) leaves u inactive and reactivate_user(u)
\* active, neither touches another user, and a message of any user changes
\* nobody's is_active
ActivityOnlyByRequest ==
    bc_pc = "idle" =>
    \A phone \in RegistryPhones :
        get_user_by_phone(users_db, phone) # NoUser =>
            /\ ~IsActive(deactivate_user(users_db, phone), phone)
            /\ IsActive(reactivate_user(users_db, phone), phone)
            /\ \A other \in RegistryPhones :
                  /\ IsActive(UserService_process_user_message(users_db, other),
                              phone) = IsActive(users_db, phone)
                  /\ other # phone =>
                        /\ IsActive(deactivate_user(users_db, other), phone)
                             = IsActive(users_db, phone)
                        /\ IsActive(reactivate_user(users_db, other), phone)
                             = IsActive(users_db, phone)

\* C14: a broadcast sends to exactly the users that are active when it
\* starts, once each, in sequence: after deactivate_user(u) and until
\* reactivate_user(u) no broadcast sends to u or counts u in users_targeted,
\* and after reactivate_user(u) broadcasts include u again.
C14_BroadcastToActiveUsers ==
    /\ BroadcastToActiveUsers
    /\ ActivityOnlyByRequest

\* a broadcast to two of three users, the second one being deactivated
C14_Witness ==
    /\ bc_pc = "returned"
    /\ Len(users_db) = 3
    /\ ~users_db[2].is_active
    /\ alert_response.users_targeted = 2
    /\ Len(sent) = 2
    /\ sent[1].to = users_db[1].phone_number
    /\ sent[2].to = users_db[3].phone_number
    /\ sent[1].network
    /\ sent[2].network

-----------------------------------------------------------------------------
(* Further properties of the signature verifier, under SpecSig.            *)

SignatureChecked == sig_result # NotCalled

\* the header is non-empty and does not start with "sha256="
MalformedHeader ==
    /\ Truthy(sig_header)
    /\ ~StartsWith(sig_header, "sha256=")

\* the call has a secret, its own or the configured one, and does not run
\* in the environment that skips the verification
VerificationEnabled ==
    /\ Truthy(sig_args.secret) \/ Truthy(Config.WHATSAPP_VERIFY_TOKEN)
    /\ Config.ENVIRONMENT # "development"

FormatError ==
    sig_result = Raised("Invalid signature format - must start with 'sha256='")

C16_WitnessDevelopment ==
    /\ SignatureChecked
    /\ Config.ENVIRONMENT = "development"
    /\ Config.WHATSAPP_VERIFY_TOKEN = "k"
    /\ sig_header = None
    /\ sig_result = Returned(TRUE)

\* the same for the POST handler, under SpecWebhook: without a configured
\* secret, and in the development environment, no request is answered with
\* the 401 of the signature stage
EveryPostPassesWhenDisabled ==
    ( /\ Responded
      /\ \/ ~Truthy(Config.WHATSAPP_VERIFY_TOKEN)
         \/ Config.ENVIRONMENT = "development" )
        => /\ SignaturePassed
           /\ wh_response.status_code # 401

-----------------------------------------------------------------------------
(* Specification of the delivery client: send_message is called once, and  *)
(* requests.post, if it is reached, does one of NetworkOutcomes.           *)

InitSend ==
    /\ Config \in SendConfigValues
    /\ sent = << >>
    /\ RetryIdle
    /\ users_db = << >>
    /\ BroadcastIdle
    /\ SignatureIdle
    /\ PhoneIdle
    /\ WebhookIdle
    /\ VerifyIdle
    /\ SendIdle
    /\ CallsIdle
    /\ NoFaults

SendMessage ==
    /\ sm_result = NoResult
    /\ \E to \in Recipients, message \in Texts, net \in NetworkOutcomes :
         /\ sm_call' = [to |-> to, message |-> message, net |-> net]
         /\ sm_result' = send_message(to, message, net)
         /\ sent' = Append(sent, SentEntry(to, message))
    /\ UNCHANGED Config
    /\ SendFrame

NextSend == SendMessage

SpecSend == InitSend /\ [][NextSend]_vars

\* send_message was called and reached requests.post
NetworkCalled ==
    /\ sm_result # NoResult
    /\ sent[1].network

IsSuccess(r) == "success" \in DOMAIN r /\ r.success /\ "error" \notin DOMAIN r
IsFailure(r, kind) ==
    /\ "success" \notin DOMAIN r
    /\ "error" \in DOMAIN r /\ r.error # ""
    /\ r.error_type = kind

\* the kind of failure a status other than 200 stands for
KindOfStatus(status) ==
    IF status = 401 THEN "authentication"
    ELSE IF status = 400 THEN "bad_request"
    ELSE IF status = 403 THEN "forbidden"
    ELSE IF status = 429 THEN "rate_limit"
    ELSE IF status >= 500 THEN "server_error"
    ELSE "unexpected"

\* C17: the result of send_message is determined by the HTTP status alone:
\* 200 yields success with the provider message id; 401 authentication; 400
\* bad_request; 403 forbidden; 429 rate_limited with the Retry-After hint
\* when present; 500 and above server_error; any other status unexpected; a
\* transport exception yields timeout or connection.  Every result is
\* exactly one of success or failure with a non-empty error.
C17_StatusDeterminesResult ==
    NetworkCalled =>
        LET net == sm_call.net IN
        IF net.kind = "response" THEN
            IF net.status = 200
            THEN /\ IsSuccess(sm_result)
                 /\ sm_result.message_id = MessageId(net.body)
            ELSE /\ IsFailure(sm_result, KindOfStatus(net.status))
                 /\ sm_result.status_code = net.status
                 /\ net.status = 429 =>
                        sm_result.retry_after = net.retry_after
        ELSE \/ IsFailure(sm_result, "timeout")
             \/ IsFailure(sm_result, "connection")

\* status 200 with an empty list of messages in the body
C17_EmptyMessagesAt200 ==
    /\ NetworkCalled
    /\ sm_call.net = Response(200, "empty_messages", None)
    /\ IsFailure(sm_result, "unexpected")

-----------------------------------------------------------------------------
(* Specification of the registry on its own:                               *)
(* UserService.process_user_message is called with a phone number, as it   *)
(* comes or with blanks around it.                                         *)

CallPhones == {"", "  ", "+15550001", "15550001", " 15550001 ", "15550002"}

InitRegistry ==
    /\ Config \in SendConfigValues
    /\ sent = << >>
    /\ RetryIdle
    /\ users_db = << >>
    /\ BroadcastIdle
    /\ SignatureIdle
    /\ PhoneIdle
    /\ WebhookIdle
    /\ VerifyIdle
    /\ SendIdle
    /\ CallsIdle
    /\ NoFaults

ProcessUserMessage ==
    /\ Len(um_calls) < MaxCalls
    /\ \E phone \in CallPhones :
         /\ users_db' = UserService_process_user_message(users_db, phone)
         /\ um_calls' = Append(um_calls, phone)
    /\ CallFrame

NextRegistry == ProcessUserMessage

SpecRegistry == InitRegistry /\ [][NextRegistry]_vars

\* the key under which the registry holds the user of a phone number
UserKey(phone) == WithPlus(Strip(phone))

\* the calls made so far for the user of a phone number
CallsFor(phone) ==
    Len(SelectSeq(um_calls,
                  LAMBDA p : Truthy(p) /\ UserKey(p) = UserKey(phone)))

\* C18: UserService.process_user_message(phone) registers the user if
\* unknown and increments that user's message_count by exactly one on every
\* call with a non-empty phone number, so after n calls for the same user
\* message_count = n; it never creates a second record for an existing user.
C18_CountsEveryMessage ==
    /\ \A i \in 1 .. Len(um_calls) :
          Truthy(um_calls[i]) =>
              /\ HasKey(users_db, UserKey(um_calls[i]))
              /\ get_user(users_db, UserKey(um_calls[i])).message_count
                   = CallsFor(um_calls[i])
    /\ \A i, j \in 1 .. Len(users_db) :
          users_db[i].phone_number = users_db[j].phone_number => i = j

\* one call with blanks around the number: a user with no message counted
C18_PaddedPhoneNotCounted ==
    /\ um_calls = <<" 15550001 ">>
    /\ users_db = <<[phone_number |-> "+15550001", message_count |-> 0,
                     is_active |-> TRUE]>>

-----------------------------------------------------------------------------
(* Further properties of the retrying sender, under SpecRetry.             *)

\* this step is one delivery attempt of send_message_with_retry
AttemptMade == rs_pc = "loop" /\ Len(sent') = Len(sent) + 1

\* the attempt failed with a status the sender tries again after
RetryableFailure(r) ==
    /\ "status_code" \in DOMAIN r
    /\ r.status_code \in {429, 500, 502, 503, 504}
    /\ r.error_type \in {"rate_limit", "server_error"}

\* what one attempt is followed by
AttemptOutcome ==
    AttemptMade =>
        LET r == send_result' IN
        /\ rs_pc' \in {"loop", "returned"}
        /\ rs_pc' = "loop" =>
              /\ Truthy(Get(r, "error"))
              /\ RetryableFailure(r)
              /\ attempt < rs_args.max_retries
              /\ attempt' = attempt + 1
        /\ (Truthy(Get(r, "error")) /\ ~RetryableFailure(r)) =>
              /\ rs_pc' = "returned"
              /\ ~rs_ret'.success
              /\ rs_ret'.attempts = Len(sent')
        /\ ~Truthy(Get(r, "error")) =>
              /\ rs_pc' = "returned"
              /\ rs_ret'.success
              /\ rs_ret'.attempt = Len(sent')

\* C19: send_message_with_retry issues a further attempt after a failed
\* attempt only if that attempt's HTTP status is one of 429, 500, 502, 503,
\* 504 (error kind rate_limited or server_error) and the retry budget is not
\* exhausted; a failure of any other kind (validation, configuration,
\* authentication, forbidden, bad_request, timeout, connection, unexpected,
\* or a server error with another status) ends the call right after that
\* attempt, and the first successful attempt ends it with success.
C19_RetryOnlyRetryable == [][AttemptOutcome]_vars

\* a second attempt is due after a 503
C19_Witness ==
    /\ rs_pc = "loop"
    /\ attempt = 1
    /\ Len(sent) = 1
    /\ "status_code" \in DOMAIN send_result
    /\ send_result.status_code = 503

\* a call with a budget of two retries ended by a 501 at its first attempt
C19_WitnessNotRetried ==
    /\ rs_pc = "returned"
    /\ rs_args.max_retries = 2
    /\ Len(sent) = 1
    /\ "status_code" \in DOMAIN send_result
    /\ send_result.status_code = 501
    /\ ~rs_ret.success

-----------------------------------------------------------------------------
(* Further properties of the delivery client, under SpecSend.              *)

SendReturned == sm_result # NoResult

EmptyAfterTrimming(s) == ~Truthy(s) \/ Strip(s) = ""
CredentialsMissing ==
    ~Truthy(Config.WHATSAPP_ACCESS_TOKEN)
        \/ ~Truthy(Config.WHATSAPP_PHONE_NUMBER_ID)

\* the calls of requests.post the one call of send_message made
NetworkCalls == Len(SelectSeq(sent, LAMBDA e : e.network))

\* the client as first stated: a text of more than 4096 characters is a
\* validation failure whatever the credentials, and missing credentials are
\* a configuration failure
C21_Original ==
    SendReturned =>
        /\ ( \/ EmptyAfterTrimming(sm_call.to)
             \/ EmptyAfterTrimming(sm_call.message)
             \/ Len(sm_call.message) > MaxMessageLength )
              => /\ IsFailure(sm_result, "validation")
                 /\ NetworkCalls = 0
        /\ ( /\ ~EmptyAfterTrimming(sm_call.to)
             /\ ~EmptyAfterTrimming(sm_call.message)
             /\ Len(sm_call.message) <= MaxMessageLength
             /\ CredentialsMissing )
              => /\ IsFailure(sm_result, "configuration")
                 /\ NetworkCalls = 0

\* C21: send_message performs no network call and returns kind 'validation'
\* when the recipient or the text is empty after trimming; otherwise no
\* network call and kind 'configuration' when credentials are missing;
\* otherwise no network call and kind 'validation' when the trimmed text
\* exceeds 4096 characters; in every other case it performs exactly one
\* network call, whose outcome it returns, and never retries internally.
C21_ValidationBeforeNetwork ==
    SendReturned =>
        IF EmptyAfterTrimming(sm_call.to)
              \/ EmptyAfterTrimming(sm_call.message)
        THEN IsFailure(sm_result, "validation") /\ NetworkCalls = 0
        ELSE IF CredentialsMissing
        THEN IsFailure(sm_result, "configuration") /\ NetworkCalls = 0
        ELSE IF Len(Strip(sm_call.message)) > MaxMessageLength
        THEN IsFailure(sm_result, "validation") /\ NetworkCalls = 0
        ELSE /\ NetworkCalls = 1
             /\ Len(sent) = 1
             /\ sm_result = IF sm_call.net.kind = "response"
                            THEN ClassifyResponse(sm_call.net)
                            ELSE ClassifyException(sm_call.net)

\* a text of 4097 characters refused with the credentials in place
C21_Witness ==
    /\ SendReturned
    /\ ~CredentialsMissing
    /\ sm_call.to = "+15550001"
    /\ Len(sm_call.message) = MaxMessageLength + 1
    /\ sm_result = ValidationError("Message too long")
    /\ NetworkCalls = 0

\* a text of 4096 characters and a blank, sent in one call
C21_WitnessTrimmedFits ==
    /\ SendReturned
    /\ sm_call.message = Repeat("x", MaxMessageLength) \o " "
    /\ NetworkCalls = 1


-----------------------------------------------------------------------------
(* Further properties of the webhook dispatcher, under SpecWebhook.         *)

\* the loop over the entries was entered
EntriesLooped == entry_index > 0

ValidEntries ==
    { i \in 1 .. Len(EnvelopeEntries) :
        "returned" \in DOMAIN validate_webhook_entry(EnvelopeEntries[i]) }
ChangesOfEntry(i) == EnvelopeEntries[i].dict["changes"].list
\* the changes of entry i that pass validation, are of field "messages" and
\* carry a list of messages
ValidMessagesChanges(i) ==
    { j \in 1 .. Len(ChangesOfEntry(i)) :
        /\ "returned" \in DOMAIN validate_webhook_change(ChangesOfEntry(i)[j])
        /\ JGet(ChangesOfEntry(i)[j], "field", JNull) = JStr("messages")
        /\ IsList(JGet(JGet(ChangesOfEntry(i)[j], "value", EmptyDict),
                       "messages", JNull)) }
MessagesOfChange(i, j) ==
    JGet(JGet(ChangesOfEntry(i)[j], "value", EmptyDict), "messages", JNull).list
\* the positions <<entry, change, message>> of the messages of the payload
MessagePositions ==
    UNION { UNION { { <<i, j, k>> : k \in 1 .. Len(MessagesOfChange(i, j)) } :
                    j \in ValidMessagesChanges(i) } : i \in ValidEntries }
MessageAt(pos) == MessagesOfChange(pos[1], pos[2])[pos[3]]
HandledAt(pos) == { n \in 1 .. Len(handled) : handled[n] = pos }
FailsExtraction(pos) == "raised" \in DOMAIN extract_message_content(MessageAt(pos))

\* C22: when the request is answered after the loop over the entries, every
\* message of every valid "messages" change of every valid entry has been
\* handed to process_user_message exactly once, whatever failed elsewhere in
\* the payload.
C22_EveryMessageHandledOnce ==
    (Responded /\ EntriesLooped) =>
        \A pos \in MessagePositions : Cardinality(HandledAt(pos)) = 1

\* a message that cannot be extracted is followed, in the same change, by
\* one that is handled and answered; an entry of the payload has failed
C22_Witness ==
    /\ Responded /\ EntriesLooped
    /\ \E pos \in MessagePositions :
         /\ FailsExtraction(pos)
         /\ <<pos[1], pos[2], pos[3] + 1>> \in MessagePositions
         /\ HandledAt(<<pos[1], pos[2], pos[3] + 1>>) # {}
    /\ Len(sent) > 0

\* an entry fails validation and the messages of the entry after it are handled
C22_WitnessFailedEntry ==
    /\ Responded /\ EntriesLooped
    /\ processing_errors # << >>
    /\ \E pos \in MessagePositions :
         /\ \E i \in FailedEntries : i < pos[1]
         /\ HandledAt(pos) # {}


FailedMessages == { pos \in MessagePositions : FailsExtraction(pos) }
\* the changes of valid entries that process_webhook_change raises for
FailedChanges ==
    { ij \in UNION { { <<i, j>> : j \in 1 .. Len(ChangesOfEntry(i)) } :
                     i \in ValidEntries } :
        "raised" \in DOMAIN validate_webhook_change(ChangesOfEntry(ij[1])[ij[2]]) }
\* the valid entries none of whose changes and messages failed
CleanEntries ==
    { i \in ValidEntries :
        /\ \A ij \in FailedChanges : ij[1] # i
        /\ \A pos \in FailedMessages : pos[1] # i }

\* C23: the error list of the response has one item for every message,
\* change or entry whose processing failed, and processed_entries counts
\* only the entries none of whose items failed.
C23_ErrorsReportEveryFailure ==
    (Responded /\ EntriesLooped) =>
        /\ Len(ReportedErrors) = Cardinality(FailedEntries)
                                 + Cardinality(FailedChanges)
                                 + Cardinality(FailedMessages)
        /\ "content" \in DOMAIN wh_response =>
               wh_response.content.processed_entries = Cardinality(CleanEntries)

\* what the handler does report: the entries that fail validate_webhook_entry,
\* while every other entry counts as processed
C23_OnlyEntryFailuresReported ==
    (Responded /\ EntriesLooped) =>
        /\ Len(ReportedErrors) = Cardinality(FailedEntries)
        /\ processed_entries = Cardinality(ValidEntries)


-----------------------------------------------------------------------------
(* Specification of the dispatch of the messages of one change: a signed   *)
(* POST with one entry and one "messages" change arrives, the credentials  *)
(* of the send API may be missing and the user service may be failing.     *)

DispatchRequests ==
    { [raw |-> Dumps(v), header |-> SignatureHeader("k", Dumps(v))] :
        v \in DispatchPayloads }

InitDispatch ==
    /\ Config \in SendConfigValues
    /\ sent = << >>
    /\ RetryIdle
    /\ users_db = << >>
    /\ BroadcastIdle
    /\ SignatureIdle
    /\ PhoneIdle
    /\ WebhookIdle
    /\ VerifyIdle
    /\ SendIdle
    /\ CallsIdle
    /\ registry_raises \in BOOLEAN

NextDispatch ==
    \/ receive_message_of(DispatchRequests)
    \/ process_webhook_entry
    \/ process_webhook_entry_return
    \/ process_webhook_change
    \/ process_webhook_change_return
    \/ process_user_message
    \/ SendAttempt
    \/ handle_text_message_return
    \/ handle_non_text_message_return
    \/ send_error_fallback_return
    \/ receive_message_return

SpecDispatch == InitDispatch /\ [][NextDispatch]_vars

\* the n-th call of process_user_message is over
Finished(n) ==
    n < Len(handled) \/ wh_pc \in {"message", "change", "entry", "responded"}
HandledMessage(n) == MessageAt(handled[n])
Extracted(n) == extract_message_content(HandledMessage(n))
IsExtracted(n) == "returned" \in DOMAIN Extracted(n)
\* the extraction results of the handled messages
ExtractedAll == [n \in 1 .. Len(handled) |-> Extracted(n)]
\* the n-th of the extraction results is the only one of its sender
OnlyOfSender(extracted, n) ==
    \A k \in DOMAIN extracted :
        (k # n /\ "returned" \in DOMAIN extracted[k]) =>
            extracted[k].returned.from # extracted[n].returned.from
\* the n-th handled message is the only one of its sender in the payload
OnlyOfItsSender(n) ==
    \A k \in 1 .. Len(handled) :
        (k # n /\ IsExtracted(k)) =>
            Extracted(k).returned.from # Extracted(n).returned.from
\* the send_message calls made for the n-th handled message, which is the
\* only one of its sender
AttemptsOf(n) ==
    SelectSeq(sent, LAMBDA a : a.to = Extracted(n).returned.from)
\* the registry update of the n-th handled message was tried
RegistryCalled(n) ==
    IsExtracted(n) /\ ~ContentLogRaises(Extracted(n).returned.content)
ReplyPaths == {"handle_text_message", "handle_non_text_message",
               "send_error_fallback"}

\* C24: when the registry update of an extracted message fails, the reply
\* goes on: the retrying sender is called for the sender of the message, and
\* by the time the message is done with at least one send_message call was
\* made, every one of them to the sender.
C24_RegistryFailureKeepsReply ==
    (EntriesLooped /\ registry_raises) =>
        LET extracted == ExtractedAll IN
        \A n \in 1 .. Len(handled) :
            ( /\ "returned" \in DOMAIN extracted[n]
              /\ ~ContentLogRaises(extracted[n].returned.content) ) =>
                /\ ~Finished(n) =>
                       /\ wh_pc \in ReplyPaths
                       /\ rs_args.from_number = extracted[n].returned.from
                /\ (Finished(n) /\ OnlyOfSender(extracted, n)) =>
                       \E i \in 1 .. Len(sent) :
                           sent[i].to = extracted[n].returned.from

\* the user service failed for a text message, the reply was sent at the
\* first attempt and the request is answered
C24_Witness ==
    /\ Responded /\ EntriesLooped
    /\ registry_raises
    /\ Len(handled) = 1
    /\ RegistryCalled(1)
    /\ Extracted(1).returned.type = JStr("text")
    /\ sent = <<SentEntry("+15550001", DemoResponse("welcome"))>>
    /\ users_db = << >>


\* the fallback that handle_text_message asks for when the reply failed
NetworkApology(to) ==
    [from_number |-> to, message |-> process_error_message("network"),
     max_retries |-> 1]

\* what the step after a reply to a text message may do
TextReplyStep ==
    (wh_pc = "handle_text_message" /\ rs_pc = "returned") =>
        /\ sent' = sent
        /\ processing_errors' = processing_errors
        /\ IF rs_ret.success
           THEN wh_pc' = "message" /\ message_index' = message_index + 1
           ELSE /\ wh_pc' = "send_error_fallback"
                /\ rs_args' = NetworkApology(extracted_message.from)
                /\ rs_pc' = "loop"
                /\ attempt' = 0
\* what a step of the fallback may do: one more attempt of the same call,
\* within its retries, or the end of the message, whatever the result was
FallbackStep ==
    wh_pc = "send_error_fallback" =>
        /\ attempt <= 1
        /\ processing_errors' = processing_errors
        /\ \/ /\ wh_pc' = "send_error_fallback"
              /\ rs_args' = rs_args
              /\ Len(sent') = Len(sent) + 1
           \/ /\ rs_pc = "returned"
              /\ wh_pc' = "message"
              /\ message_index' = message_index + 1
              /\ sent' = sent

\* C25: a reply to a text message that was sent ends the message without a
\* fallback; a reply that failed, for whatever reason, is followed by one
\* call of the retrying sender with max_retries = 1 and the "network"
\* apology; when the fallback is over the message is over, whether it was
\* sent or not, and no error is recorded.
C25_TwoStepTextReply == [][TextReplyStep /\ FallbackStep]_vars

\* three attempts of the reply and two attempts of the fallback failed, and
\* the request is answered with the entry processed
C25_Witness ==
    /\ Responded /\ EntriesLooped
    /\ Len(handled) = 1
    /\ sent = <<SentEntry("+15550001", DemoResponse("welcome")),
                SentEntry("+15550001", DemoResponse("welcome")),
                SentEntry("+15550001", DemoResponse("welcome")),
                SentEntry("+15550001", process_error_message("network")),
                SentEntry("+15550001", process_error_message("network"))>>
    /\ wh_response = Received(1, << >>)


\* the id or the sender of an object is absent or empty, or the sender does
\* not pass sanitize_phone_number
BadIdOrSender(message) ==
    \/ ~JTruthy(JGet(message, "id", JNull))
    \/ ~JTruthy(JGet(message, "from", JNull))
    \/ "raised" \in DOMAIN sanitize_json_phone(JGet(message, "from", JNull))

\* process_user_message is about to be called for a message without a usable
\* id or sender
BadMessageNext ==
    /\ wh_pc = "message"
    /\ message_index <= Len(CurMessages)
    /\ IsDict(CurMessage)
    /\ BadIdOrSender(CurMessage)

\* C26: for a message whose id or sender is absent or empty, or whose sender
\* does not pass the phone sanitizer, extract_message_content raises, and
\* the step that handles the message changes neither the registry nor the
\* sends nor the retrying sender, and goes to the next message.
C26_BadMessageIsSkipped ==
    [][BadMessageNext =>
          /\ "raised" \in DOMAIN extract_message_content(CurMessage)
          /\ users_db' = users_db
          /\ sent' = sent
          /\ retryVars' = retryVars
          /\ wh_pc' = "message"
          /\ message_index' = message_index + 1
          /\ extracted_message' = extracted_message]_vars

\* the first message of a change has the sender "abc": nothing was sent for
\* it, the second message was answered and its sender alone is registered
C26_Witness ==
    /\ Responded /\ EntriesLooped
    /\ ~registry_raises
    /\ Len(handled) = 2
    /\ BadIdOrSender(HandledMessage(1))
    /\ ~IsExtracted(1)
    /\ IsExtracted(2)
    /\ Len(sent) >= 1
    /\ AttemptsOf(2) = sent
    /\ Len(users_db) = 1
    /\ MessageCount(users_db, "+15550001") = 1


\* the request has left no trace but its response
NothingProcessed ==
    /\ entry_index = 0
    /\ processed_entries = 0
    /\ processing_errors = << >>
    /\ handled = << >>
    /\ generated = << >>
    /\ users_db = << >>
    /\ sent = << >>
    /\ rs_pc = "idle"

\* C27: a request whose signature check fails is answered 401 before its
\* body is parsed, and a request whose envelope fails validation is turned
\* away as well; in both cases no entry is processed, no user is created or
\* updated and nothing is sent.
C27_RejectedRequestAborts ==
    wh_pc # "idle" =>
        /\ VerificationFails =>
               /\ Responded
               /\ ~BodyParsed
               /\ wh_response.status_code = 401
               /\ NothingProcessed
        /\ (SignaturePassed /\ MalformedBody) =>
               /\ Responded
               /\ wh_response.status_code # 200
               /\ NothingProcessed

\* a well-formed body with a text message under a signature that does not
\* verify
C27_Witness ==
    /\ Responded
    /\ x_hub_signature_256 = "sha256=abc"
    /\ raw_payload = Dumps(Envelope(JList(<<Entry(JList(<<MessagesChange(JList(
           <<TextMessage("15550001", JStr("hello"))>>))>>))>>)))
    /\ wh_response.status_code = 401
    /\ NothingProcessed

\* a body that is not JSON under a header that does not verify: 401, not 400
C27_WitnessUnparsed ==
    /\ Responded
    /\ raw_payload = "{\"object\":"
    /\ x_hub_signature_256 = None
    /\ wh_response.status_code = 401

\* a signed envelope of another object type
C27_WitnessEnvelope ==
    /\ Responded
    /\ SignaturePassed
    /\ BodyParsed
    /\ wh_body = JDict([object |-> JStr("page"), entry |-> JList(<<JStr("1055")>>)])
    /\ wh_response.status_code = 400
    /\ NothingProcessed


\* position p comes before position q in the payload
Before(p, q) ==
    \/ p[1] < q[1]
    \/ p[1] = q[1] /\ p[2] < q[2]
    \/ p[1] = q[1] /\ p[2] = q[2] /\ p[3] < q[3]

\* what one step of the request may do to the order of the work
SequentialStep ==
    \* a message is taken up when no send is under way, after every message
    \* before it in the payload
    /\ handled' # handled =>
           /\ rs_pc = "idle"
           /\ wh_pc = "message"
           /\ Len(handled') = Len(handled) + 1
           /\ \A n \in 1 .. Len(handled) :
                  Before(handled[n], handled'[Len(handled')])
    \* the registry is updated in the step that takes a message up
    /\ users_db' # users_db => handled' # handled
    \* a send is made for the message in hand, to its sender
    /\ sent' # sent =>
           /\ handled' = handled
           /\ wh_pc \in ReplyPaths
           /\ extracted_message # NoMessage
           /\ sent' = Append(sent, SentEntry(extracted_message.from,
                                             rs_args.message))
    \* the message in hand is left when its last call of the retrying sender
    \* has returned
    /\ (wh_pc \in ReplyPaths /\ wh_pc' \notin ReplyPaths) =>
           /\ rs_pc = "returned"
           /\ wh_pc' = "message"
           /\ sent' = sent

\* C28: the messages of a request are taken up one after the other in the
\* order of the payload, and every send for a message, retries and fallback
\* included, is over before the next message is taken up and the registry
\* updated for it.
C28_MessagesInPayloadOrder == [][SequentialStep]_vars

\* two entries with a message each were answered after retries: the sends of
\* the first message precede those of the second
C28_Witness ==
    /\ Responded /\ EntriesLooped
    /\ handled = <<<<1, 1, 1>>, <<2, 1, 1>>>>
    /\ Len(sent) = 5
    /\ \A i \in 1 .. 3 : sent[i].to = "+15550001"
    /\ \A i \in 4 .. 5 : sent[i].to = "+15550002"


\* the handled messages of list-valued changes that were extracted
ExtractedMessages ==
    { n \in 1 .. Len(handled) : handled[n] \in MessagePositions /\ IsExtracted(n) }
Sender(n) == Extracted(n).returned.from
OneRecordPerPhone ==
    \A i, j \in 1 .. Len(users_db) :
        users_db[i].phone_number = users_db[j].phone_number => i = j

\* C29: the registry holds one record per canonical phone number, and when
\* the request is answered the message_count of every sender equals the
\* number of extracted messages of that sender.
C29_CountsExtractedMessages ==
    /\ OneRecordPerPhone
    /\ (Responded /\ EntriesLooped) =>
           \A n \in ExtractedMessages :
               MessageCount(users_db, Sender(n))
                   = Cardinality({ k \in ExtractedMessages : Sender(k) = Sender(n) })

\* what holds of the dispatcher: the messages counted are the extracted ones
\* whose body passes the debug log of line 404-407
C29_CountsLoggedMessages ==
    /\ OneRecordPerPhone
    /\ (Responded /\ EntriesLooped) =>
           \A n \in ExtractedMessages :
               MessageCount(users_db, Sender(n))
                   = Cardinality({ k \in ExtractedMessages :
                                     /\ Sender(k) = Sender(n)
                                     /\ RegistryCalled(k) })


\* the phone numbers that extract_message_content hands to the registry
Sanitized(phone) == sanitize_phone_number(phone) = Returned(phone)

\* what holds of the registry under any interleaving of the calls of several
\* requests, the call being one step: every call is counted for its user as
\* long as the user's numbers come sanitized, and no user has two records
C29_SanitizedCallsCounted ==
    /\ OneRecordPerPhone
    /\ \A i \in 1 .. Len(um_calls) :
          Sanitized(um_calls[i]) =>
              \/ MessageCount(users_db, um_calls[i]) = CallsFor(um_calls[i])
              \/ \E j \in 1 .. Len(um_calls) :
                     /\ UserKey(um_calls[j]) = UserKey(um_calls[i])
                     /\ ~Sanitized(um_calls[j])


Apologies ==
    { "I'm having connectivity issues. Please try sending your message again.",
      "I couldn't process your message properly. Could you try rephrasing it?",
      "Sorry, I'm having trouble right now. Please try again later." }
IsText(n) == Extracted(n).returned.type = JStr("text")
\* the attempts for the n-th handled message that carry an apology, and
\* those that carry the reply or the acknowledgement
FallbackAttempts(n) == SelectSeq(AttemptsOf(n), LAMBDA a : a.message \in Apologies)
ReplyAttempts(n) == SelectSeq(AttemptsOf(n), LAMBDA a : a.message \notin Apologies)

\* C30: every send_message call of the request is addressed to the sanitized
\* sender of a handled message.  For an extracted message that is the only
\* one of its sender: at least one call is made by the time the message is
\* done with; a text message gets at most three calls with the reply and at
\* most two with an apology; any other message gets at most three calls, and
\* an acknowledgement is never followed by an apology.
C30_AttemptsPerMessage ==
    EntriesLooped =>
        LET extracted == ExtractedAll
            senders == { extracted[n].returned.from :
                           n \in { k \in DOMAIN extracted :
                                      "returned" \in DOMAIN extracted[k] } }
        IN
        /\ \A i \in 1 .. Len(sent) : sent[i].to \in senders
        /\ \A n \in 1 .. Len(handled) :
               ("returned" \in DOMAIN extracted[n] /\ OnlyOfSender(extracted, n)) =>
                   LET to == extracted[n].returned.from
                       replies == { i \in 1 .. Len(sent) :
                                      sent[i].to = to /\ sent[i].message \notin Apologies }
                       fallbacks == { i \in 1 .. Len(sent) :
                                        sent[i].to = to /\ sent[i].message \in Apologies }
                   IN
                   /\ Finished(n) => replies \cup fallbacks # {}
                   /\ Cardinality(replies) <= 3
                   /\ Cardinality(fallbacks) <= 2
                   /\ extracted[n].returned.type # JStr("text") =>
                          /\ Cardinality(replies \cup fallbacks) <= 3
                          /\ replies = {} \/ fallbacks = {}

\* the acknowledgement of an image failed three times and nothing else was
\* sent
C30_Witness ==
    /\ Responded /\ EntriesLooped
    /\ Len(handled) = 1
    /\ IsExtracted(1)
    /\ ~IsText(1)
    /\ sent = [i \in 1 .. 3 |->
                  SentEntry("+15550002", non_text_responses("image"))]
    /\ Config.WHATSAPP_ACCESS_TOKEN = "token"
    /\ Config.WHATSAPP_PHONE_NUMBER_ID = "1055"

\* a text message got three calls with the reply and two with the apology
C30_WitnessFiveAttempts ==
    /\ Responded /\ EntriesLooped
    /\ Len(handled) = 1
    /\ IsExtracted(1) /\ IsText(1)
    /\ Len(ReplyAttempts(1)) = 3
    /\ Len(FallbackAttempts(1)) = 2

=============================================================================
